---- MODULE Spec2Model ----
(***************************************************************************)
(* Streaming task detection and progress tracking of the task-master CLI:  *)
(*   - PrdParseTracker (scripts/modules/progress/prdParseTracker.js and    *)
(*     the earlier variant of the same class kept in task-manager.js),     *)
(*   - parsePRD with its detectTasks / streamingTracker closures, the      *)
(*     100 ms progress interval and displayPRDParsingProgress (ui.js).     *)
(*                                                                         *)
(* Streamed text is a sequence of lexical tokens <<kind, n>>.  Every token *)
(* stands for a fixed piece of JSON text; consecutive tokens are separated *)
(* by one blank:                                                           *)
(*   <<"open",0>>   {             <<"close",0>>  }                         *)
(*   <<"comma",0>>  ,             <<"id",n>>     "id": n                   *)
(*   <<"title",n>>  "title": "Tn" (n = 0: "title": "")                     *)
(*   <<"prio",p>>   "priority": "high"|"medium"|"low"|"urgent" (p = 1..4)  *)
(*   <<"tasks",0>>  "tasks": [    <<"arrclose",0>> ]                       *)
(*   <<"meta",0>>   "metadata":   <<"gen",0>>    "generatedAt": "2025"     *)
(*   <<"close2",0>> }}            <<"word",n>>   a word of n letters       *)
(* Chunk boundaries fall between tokens.  Percentages are kept in          *)
(* thousandths of a percent so that the fractions the code produces are    *)
(* exact integers.                                                         *)
(***************************************************************************)
EXTENDS Integers, Sequences, FiniteSets, TLC

VARIABLES tr,       \* the PrdParseTracker instance under test
          stream,   \* the text the model's LLM stream will deliver
          fed,      \* number of tokens of stream already delivered
          calls,    \* number of calls made on the tracker so far
          hist,     \* observations of the calls made so far
          ps,       \* the parsePRD session, the static display state and
                    \* what the last step emitted and rendered
          chunkSize,\* tokens per chunk of the stream
          twin      \* a second tracker given the same calls as tr, built
                    \* on a stream that is not a TTY

vars == <<tr, stream, fed, calls, hist, ps, chunkSize, twin>>

-----------------------------------------------------------------------------
(* Bounds of the model *)

MaxCalls == 4
MaxSessions == 3
MaxTokenDelta == 1

-----------------------------------------------------------------------------
(* Text layer *)

Tok(k, n) == <<k, n>>
Kind(t) == t[1]
Val(t) == t[2]

OPEN == Tok("open", 0)
CLOSE == Tok("close", 0)
COMMA == Tok("comma", 0)

PrioName(p) == CASE p = 1 -> "high" [] p = 2 -> "medium" [] p = 3 -> "low"
                 [] OTHER -> "urgent"

\* { "id": i , "title": "Tt" , "priority": "p" }
Obj(i, t, p) == << OPEN, Tok("id", i), COMMA, Tok("title", t), COMMA, Tok("prio", p), CLOSE >>

\* { "id": i , "title": "Tt" }
ObjNoPrio(i, t) == << OPEN, Tok("id", i), COMMA, Tok("title", t), CLOSE >>

IsBrace(t) == Kind(t) \in {"open", "close"}

IsMember(t) == Kind(t) \in {"id", "title", "prio", "gen"}

\* Index of the first brace of s after position i, or 0.
NextBrace(s, i) ==
  LET js == {j \in (i+1)..Len(s) : IsBrace(s[j])}
  IN IF js = {} THEN 0 ELSE CHOOSE j \in js : \A k \in js : j <= k

Min(a, b) == IF a < b THEN a ELSE b
Max(a, b) == IF a > b THEN a ELSE b

SetToSeq(S) ==
  LET RECURSIVE f(_)
      f(T) == IF T = {} THEN << >>
              ELSE LET m == CHOOSE x \in T : \A y \in T : x <= y
                   IN << m >> \o f(T \ {m})
  IN f(S)

\* /\{[^{}]*?"id"\s*:\s*\d+[^{}]*?\}/g : the start positions of the matches, in
\* order.  A match is a brace-free { ... } that holds an id member.
taskRegex(s) ==
  SetToSeq({i \in 1..Len(s) :
              /\ s[i] = OPEN
              /\ NextBrace(s, i) # 0
              /\ s[NextBrace(s, i)] = CLOSE
              /\ \E k \in (i+1)..(NextBrace(s, i)-1) : Kind(s[k]) = "id"})

\* /"title"\s*:\s*"([^"]*)"\s*,/g : positions of the title members that a comma follows.
titleCommaRegex(s) ==
  SetToSeq({i \in 1..Len(s) : Kind(s[i]) = "title" /\ i < Len(s) /\ s[i+1] = COMMA})

\* JSON.parse of a brace-free object text { m , m , ... }: the members must be
\* key-value pairs separated by single commas.
JsonValid(inner) ==
  \/ inner = << >>
  \/ /\ Len(inner) % 2 = 1
     /\ \A k \in 1..Len(inner) :
          IF k % 2 = 1 THEN IsMember(inner[k]) ELSE inner[k] = COMMA

LastOf(inner, kind) ==
  LET ks == {k \in 1..Len(inner) : Kind(inner[k]) = kind}
  IN IF ks = {} THEN 0 ELSE CHOOSE k \in ks : \A j \in ks : j <= k

\* The object JSON.parse returns (a later duplicate key wins).  title 0 is the
\* empty or missing title, priority "none" the missing priority.
JsonParse(inner) ==
  [id |-> IF LastOf(inner, "id") = 0 THEN 0 ELSE Val(inner[LastOf(inner, "id")]),
   title |-> IF LastOf(inner, "title") = 0 THEN 0 ELSE Val(inner[LastOf(inner, "title")]),
   priority |-> IF LastOf(inner, "prio") = 0 THEN "none"
                ELSE PrioName(Val(inner[LastOf(inner, "prio")]))]

-----------------------------------------------------------------------------
(* PrdParseTracker *)

\* constructor: variant "current" is prdParseTracker.js, "early" the class at
\* the head of task-manager.js.  startTime 0 is null.
NewTracker(variant, isTTY, ci, sinkBroken) ==
  [variant |-> variant,
   isTTY |-> isTTY,
   useFixedHeader |-> (variant = "current" /\ isTTY /\ ~ci),
   sinkBroken |-> sinkBroken,
   jsonBuffer |-> << >>,
   seenTaskIds |-> {},
   isTrackingActive |-> FALSE,
   spinner |-> "null",
   progressBar |-> "null",
   startTime |-> 0,
   totalTasks |-> 0,
   completedTasks |-> 0,
   tokensIn |-> 0,
   tokensOut |-> 0,
   taskCount |-> 0,
   statsStartTime |-> 0,
   endTime |-> 0,
   taskCategories |-> [high |-> 0, medium |-> 0, low |-> 0],
   \* observations: live ora / cli-progress timers, events emitted, what the
   \* last call did
   spinTimers |-> 0,
   barTimers |-> 0,
   events |-> [start |-> 0, taskAdded |-> 0, progress |-> 0, tokensUpdated |-> 0, finish |-> 0,
               taskIdentified |-> 0],
   summaryCalls |-> 0,
   summaryArg |-> [totalTasks |-> 0, high |-> 0, medium |-> 0, low |-> 0],
   warned |-> FALSE,
   threw |-> FALSE]

\* A write to the output stream raises (closed pipe) when the sink is broken;
\* without a TTY the tracker writes nothing.
RenderThrows(t) == t.isTTY /\ t.sinkBroken

\* emit reached only from the rendering path
EmitIfTTY(t, ev) == IF t.isTTY THEN [t EXCEPT !.events[ev] = @ + 1] ELSE t

Emit(t, ev) == [t EXCEPT !.events[ev] = @ + 1]

\* Entry of a public method: forget what the previous call reported.
Enter(t) == [t EXCEPT !.warned = FALSE, !.threw = FALSE]

\* start(totalTasks, initialStats, initialTokensIn, initialTokensOut)
start(t0, now, total, tIn, tOut) ==
  LET t == Enter(t0)
      t1 == [t EXCEPT !.startTime = now, !.statsStartTime = now,
                      !.totalTasks = total, !.completedTasks = 0,
                      !.tokensIn = tIn, !.tokensOut = tOut,
                      !.isTrackingActive = (t.variant = "current"),
                      !.taskCount = total]
      \* _initTerminalLayout catches its own error and leaves fixed-header mode
      t2 == IF t1.useFixedHeader /\ RenderThrows(t1)
            THEN [t1 EXCEPT !.useFixedHeader = FALSE] ELSE t1
      spins == (t2.variant = "early") \/ ~t2.useFixedHeader
  IN IF RenderThrows(t2)
     THEN \* spinner.start() writes and raises; the new bar is never created
          [t2 EXCEPT !.spinner = "idle", !.threw = TRUE]
     ELSE Emit([t2 EXCEPT !.spinner = IF spins /\ t2.isTTY THEN "spinning" ELSE "idle",
                          !.spinTimers = IF spins /\ t2.isTTY THEN @ + 1 ELSE @,
                          !.progressBar = "active",
                          !.barTimers = IF t2.isTTY THEN @ + 1 ELSE @],
               "start")

\* String.prototype.toLowerCase on the priorities that occur
toLowerCase(p) ==
  CASE p = "HIGH" -> "high"
    [] p = "Medium" -> "medium"
    [] p = "LOW" -> "low"
    [] OTHER -> p

\* the priority counted as it is written, 'medium' when absent
CountPriorityAsWritten(cats, priority) ==
  LET p == IF priority = "none" THEN "medium" ELSE priority
  IN IF p \in {"high", "medium", "low"} THEN [cats EXCEPT ![p] = @ + 1] ELSE cats

\* task.priority?.toLowerCase() || 'medium', counted when it is a known category
CountPriority(cats, priority) ==
  LET p == IF priority = "none" THEN "medium" ELSE toLowerCase(priority)
  IN IF p \in {"high", "medium", "low"} THEN [cats EXCEPT ![p] = @ + 1] ELSE cats

\* the guard at the head of tick
TickIgnored(t) == t.variant = "early" /\ t.startTime = 0

\* tick without "if (this.completedTasks > this.totalTasks) { ... }"
keptTotal(t, c) == t.totalTasks

\* the total after tick has counted c tasks: raised to c when more tasks are
\* detected than expected (the early class has no such statement)
raisedTotal(t, c) == IF t.variant = "current" /\ c > t.totalTasks THEN c ELSE t.totalTasks

\* tick(task, deltaTokensIn, deltaTokensOut)
tick(t0, task, dIn, dOut) ==
  LET t == Enter(t0)
      c == t.completedTasks + 1
      t1 == [t EXCEPT !.completedTasks = c,
                      !.totalTasks = raisedTotal(t, c),
                      !.tokensIn = @ + dIn, !.tokensOut = @ + dOut,
                      !.taskCategories = CountPriority(@, task.priority)]
  IN IF TickIgnored(t) THEN [t EXCEPT !.warned = TRUE]
     ELSE IF RenderThrows(t1) THEN [t1 EXCEPT !.threw = TRUE]
     ELSE Emit(Emit(t1, "taskAdded"), "progress")

\* trackTask(taskInfo), deprecated: the priority is counted and the total
\* raised to taskInfo.taskCount (0: absent); completedTasks is left alone
trackTask(t0, taskInfo, taskCount) ==
  LET t == Enter(t0)
      raise == taskCount # 0 /\ taskCount > t.totalTasks
  IN Emit([t EXCEPT !.warned = TRUE,
                    !.taskCategories = CountPriority(@, taskInfo.priority),
                    !.totalTasks = IF raise THEN taskCount ELSE @,
                    !.taskCount = IF raise THEN taskCount ELSE @],
          "taskIdentified")

\* updateTokens without its first statement, if (!this.startTime) return
updateTokensNoGuard(t0, dIn, dOut) ==
  [Enter(t0) EXCEPT !.tokensIn = @ + dIn, !.tokensOut = @ + dOut,
                    !.threw = t0.startTime # 0 /\ RenderThrows(t0),
                    !.events.tokensUpdated =
                       IF t0.startTime # 0 /\ RenderThrows(t0) THEN @ ELSE @ + 1]

\* updateTokens(deltaTokensIn, deltaTokensOut)
updateTokens(t0, dIn, dOut) ==
  LET t == Enter(t0)
      t1 == [t EXCEPT !.tokensIn = @ + dIn, !.tokensOut = @ + dOut]
  IN IF t.startTime = 0 THEN t
     ELSE IF RenderThrows(t1) THEN [t1 EXCEPT !.threw = TRUE]
     ELSE Emit(t1, "tokensUpdated")

\* finish without its last statement
FinishCleanupKeepsStartTime(t) == t

\* the last statement of finish: this.startTime = null
FinishCleanup(t) == [t EXCEPT !.startTime = 0]

\* finish(success, finalStats, summaryCallback)
finish(t0, now, success, withCallback) ==
  LET t == Enter(t0)
      adjust == t.variant = "current" /\ t.completedTasks > 0 /\ t.totalTasks = 0
      t1 == [t EXCEPT !.isTrackingActive = FALSE, !.endTime = now,
                      !.totalTasks = IF adjust THEN t.completedTasks ELSE @,
                      !.taskCount = IF adjust THEN t.completedTasks ELSE @]
      spinning == t1.spinner = "spinning"
      t2 == [t1 EXCEPT !.progressBar = IF @ = "null" THEN "null"
                                       ELSE IF t.variant = "current" THEN "null" ELSE "stopped",
                       !.barTimers = IF t1.progressBar = "active" /\ t1.isTTY THEN @ - 1 ELSE @,
                       !.spinner = IF t.variant = "current" THEN "null"
                                   ELSE IF @ = "null" THEN "null" ELSE "idle",
                       !.spinTimers = IF spinning /\ t1.isTTY THEN @ - 1 ELSE @]
      t3 == IF withCallback
            THEN [t2 EXCEPT !.summaryCalls = @ + 1,
                            !.summaryArg =
                               [totalTasks |-> IF t2.taskCount # 0 THEN t2.taskCount
                                               ELSE t2.completedTasks,
                                high |-> t2.taskCategories.high,
                                medium |-> t2.taskCategories.medium,
                                low |-> t2.taskCategories.low]]
            ELSE t2
  IN IF t.startTime = 0
     THEN \* finish() before start(): warn; the early variant also stops what is left
          IF t.variant = "early"
          THEN [t EXCEPT !.warned = TRUE,
                         !.spinTimers = IF t.spinner = "spinning" /\ t.isTTY THEN @ - 1 ELSE @,
                         !.spinner = IF @ = "spinning" THEN "idle" ELSE @,
                         !.barTimers = IF t.progressBar = "active" /\ t.isTTY THEN @ - 1 ELSE @,
                         !.progressBar = IF @ = "active" THEN "stopped" ELSE @]
          ELSE [t EXCEPT !.warned = TRUE]
     ELSE IF RenderThrows(t1) THEN [t1 EXCEPT !.threw = TRUE]
     ELSE FinishCleanup(Emit(t3, "finish"))

\* if (!this._seenTaskIds.has(id))
IsNewId(t, id) == id \notin t.seenTaskIds

\* Strategy 1 of updateStreamedJson: the while loop over the taskRegex matches
\* ms (start positions in buf).  acc = [t, newTasks, ticked, tasks]; ticked
\* lists the ids handed to tick, tasks the task objects.  An exception of tick is swallowed by the catch around
\* JSON.parse, after the id was added and before newTasks.push.
RECURSIVE ScanObjects(_, _, _)
ScanObjects(buf, ms, acc) ==
  IF ms = << >> THEN acc
  ELSE LET m == Head(ms)
           inner == SubSeq(buf, m + 1, NextBrace(buf, m) - 1)
           obj == JsonParse(inner)
           fresh == JsonValid(inner) /\ obj.title # 0 /\ IsNewId(acc.t, obj.id)
           t1 == tick([acc.t EXCEPT !.seenTaskIds = @ \cup {obj.id}], obj, 0, 0)
       IN ScanObjects(buf, Tail(ms),
            IF ~fresh THEN acc
            ELSE [t |-> [t1 EXCEPT !.threw = FALSE],
                  newTasks |-> IF t1.threw THEN acc.newTasks ELSE acc.newTasks + 1,
                  ticked |-> Append(acc.ticked, obj.id),
                  tasks |-> Append(acc.tasks, obj)])

\* The title fallback of updateStreamedJson: the while loop over the titleRegex
\* matches ts, titleCount counting them from 1.  acc = [t, ticked, tasks].  tick is
\* called outside any try block here.
RECURSIVE ScanTitles(_, _, _, _)
ScanTitles(buf, ts, titleCount, acc) ==
  IF ts = << >> \/ acc.t.threw THEN acc
  ELSE LET size == Cardinality(acc.t.seenTaskIds)
           taskId == size + 1
           task == [id |-> taskId, title |-> Val(buf[Head(ts)]), priority |-> "none"]
           fresh == titleCount > size /\ IsNewId(acc.t, taskId)
       IN ScanTitles(buf, Tail(ts), titleCount + 1,
            IF ~fresh THEN acc
            ELSE [t |-> tick([acc.t EXCEPT !.seenTaskIds = @ \cup {taskId}], task, 0, 0),
                  ticked |-> Append(acc.ticked, taskId),
                  tasks |-> Append(acc.tasks, task)])

\* let lastMatch = match ? match.index + match[0].length : 0 : the while loop
\* has just ended because match is null.
LastMatchEnd(buf, ms) == 0

\* updateStreamedJson(chunk): the tracker afterwards, the ids ticked and the
\* task objects handed to tick
updateStreamedJson(t0, chunk) ==
  LET t == Enter(t0)
      buf == t.jsonBuffer \o chunk
      ms == taskRegex(buf)
      a1 == ScanObjects(buf, ms, [t |-> [t EXCEPT !.jsonBuffer = buf], newTasks |-> 0,
                                  ticked |-> << >>, tasks |-> << >>])
      a2 == IF a1.newTasks = 0
            THEN ScanTitles(buf, titleCommaRegex(buf), 1,
                            [t |-> a1.t, ticked |-> a1.ticked, tasks |-> a1.tasks])
            ELSE [t |-> a1.t, ticked |-> a1.ticked, tasks |-> a1.tasks]
      cut == IF a1.newTasks > 0 /\ ~a2.t.threw THEN LastMatchEnd(buf, ms) ELSE 0
  IN [t |-> [a2.t EXCEPT !.jsonBuffer = SubSeq(buf, cut + 1, Len(buf))],
      ticked |-> a2.ticked,
      tasks |-> a2.tasks]

-----------------------------------------------------------------------------
(* The text of a token sequence, as far as parsePRD looks at it *)

TASKS == Tok("tasks", 0)
ARRCLOSE == Tok("arrclose", 0)
META == Tok("meta", 0)
GEN == Tok("gen", 0)
CLOSE2 == Tok("close2", 0)

Digits(n) == IF n < 10 THEN 1 ELSE 2

\* characters of the text of a token
TokLen(t) ==
  CASE Kind(t) \in {"open", "close", "comma", "arrclose"} -> 1
    [] Kind(t) = "close2" -> 2
    [] Kind(t) = "id" -> 6 + Digits(Val(t))
    [] Kind(t) = "title" -> IF Val(t) = 0 THEN 11 ELSE 12 + Digits(Val(t))
    [] Kind(t) = "prio" -> CASE Val(t) = 1 -> 18 [] Val(t) = 3 -> 17 [] OTHER -> 20
    [] Kind(t) = "tasks" -> 10
    [] Kind(t) = "meta" -> 11
    [] Kind(t) = "word" -> Val(t)
    [] OTHER -> 21

\* text.split(/\s+/) : the pieces of a token's text
TokWords(t) == IF Kind(t) \in {"id", "title", "prio", "tasks", "gen"} THEN 2 ELSE 1

\* text.match(/\d/g)
TokDigits(t) ==
  CASE Kind(t) = "id" -> Digits(Val(t))
    [] Kind(t) = "title" -> IF Val(t) = 0 THEN 0 ELSE Digits(Val(t))
    [] Kind(t) = "gen" -> 4
    [] OTHER -> 0

\* text.match(/[^\w\s]/g)
TokSpecials(t) ==
  CASE Kind(t) \in {"open", "close", "comma", "arrclose"} -> 1
    [] Kind(t) = "close2" -> 2
    [] Kind(t) \in {"id", "meta"} -> 3
    [] Kind(t) = "tasks" -> 4
    [] Kind(t) = "word" -> 0
    [] OTHER -> 5

RECURSIVE SumSeq(_)
SumSeq(f) == IF f = << >> THEN 0 ELSE Head(f) + SumSeq(Tail(f))

\* match.index : offset of the first character of token i in the text of s
CharStart(s, i) == SumSeq([j \in 1..(i-1) |-> TokLen(s[j]) + 1])

\* text.length
TextLen(s) == IF s = << >> THEN 0 ELSE CharStart(s, Len(s)) + TokLen(s[Len(s)])

CeilDiv(a, b) == (a + b - 1) \div b

\* calculateTokens without the safety bounds of its return statement
calculateTokensUnclamped(text) ==
  IF text = << >> THEN 0
  ELSE CeilDiv(26 * SumSeq([j \in 1..Len(text) |-> TokWords(text[j])])
               + 5 * SumSeq([j \in 1..Len(text) |-> TokDigits(text[j])])
               + 20 * SumSeq([j \in 1..Len(text) |-> TokSpecials(text[j])])
               - Min(10000, TextLen(text)), 20)

\* calculateTokens(text).  The sum 1.3 words + 0.25 digits + specials - bias is
\* taken in twentieths.
calculateTokens(text) ==
  LET length == TextLen(text)
      wordTokens == 26 * SumSeq([j \in 1..Len(text) |-> TokWords(text[j])])
      digitTokens == 5 * SumSeq([j \in 1..Len(text) |-> TokDigits(text[j])])
      specialChars == 20 * SumSeq([j \in 1..Len(text) |-> TokSpecials(text[j])])
      jsonBias == Min(10000, length)
      calculatedTokens == CeilDiv(wordTokens + digitTokens + specialChars - jsonBias, 20)
      minTokens == CeilDiv(length, 5)
      maxTokens == CeilDiv(length, 2)
  IN IF text = << >> THEN 0 ELSE Min(maxTokens, Max(minTokens, calculatedTokens))

\* content.includes('"metadata":')
HasMetadata(content) == \E i \in 1..Len(content) : content[i] = META

\* content.includes('"generatedAt"')
HasGeneratedAt(content) == \E i \in 1..Len(content) : content[i] = GEN

\* content.endsWith('}}')
EndsWithBraces(content) == content # << >> /\ content[Len(content)] = CLOSE2

\* content.includes(`"id": ${n}`)
HasIdText(content, n) ==
  \E i \in 1..Len(content) :
    /\ Kind(content[i]) = "id"
    /\ \/ Val(content[i]) = n
       \/ Val(content[i]) >= 10 /\ Val(content[i]) \div 10 = n

-----------------------------------------------------------------------------
(* parsePRD: detectTasks *)

\* CONFIG.defaultNumTasks || 10
defaultNumTasks == 10

\* The first pass of detectTasks: the keys of matchedTasks in insertion order,
\* i.e. the ids not in seenTaskIds in the order of their first occurrence.
matchedTasks(content, seen) ==
  LET idx == {i \in 1..Len(content) :
                Kind(content[i]) = "id" /\ Val(content[i]) \notin seen}
      firsts == {i \in idx : \A j \in idx : Val(content[j]) = Val(content[i]) => i <= j}
      order == SetToSeq(firsts)
  IN [k \in 1..Len(order) |-> Val(content[order[k]])]

\* matchedTasks.get(id).pos : every later occurrence of the id overwrites pos
taskStartPos(content, id) ==
  LET idx == {i \in 1..Len(content) : content[i] = Tok("id", id)}
  IN CHOOSE i \in idx : \A j \in idx : j <= i

\* titleRegex.exec(content.substring(pos)) of the one global regex object of a
\* detectTasks call: the search starts at its lastIndex, a hit moves lastIndex
\* behind the hit, a miss resets it to 0.
titleRegexExec(content, pos, lastIndex) ==
  LET off(j) == CharStart(content, j) - CharStart(content, pos)
      hits == {j \in pos..Len(content) :
                 Kind(content[j]) = "title" /\ Val(content[j]) # 0 /\ off(j) >= lastIndex}
      j == CHOOSE h \in hits : \A g \in hits : h <= g
  IN IF hits = {} THEN [found |-> FALSE, title |-> 0, lastIndex |-> 0]
     ELSE [found |-> TRUE, title |-> Val(content[j]),
           lastIndex |-> off(j) + TokLen(content[j])]

\* titleSearch.match(/"priority"\s*:\s*"(high|medium|low)"/i)
priorityMatch(content, pos) ==
  LET hits == {k \in pos..Len(content) :
                 Kind(content[k]) = "prio" /\ Val(content[k]) \in 1..3}
  IN IF hits = {} THEN "none"
     ELSE PrioName(Val(content[CHOOSE h \in hits : \A g \in hits : h <= g]))

\* The altPatterns tried on content.substring(pos - 100, pos + 500) when the
\* standard match fails: quoted_flexible needs the whole member in the window,
\* unquoted_key does without the opening quote, any_word_value takes any word
\* (even one cut by the end of the window) and normalises it to medium.
altPatterns(content, pos) ==
  LET winStart == Max(0, CharStart(content, pos) - 100)
      winEnd == Min(TextLen(content), CharStart(content, pos) + 500)
      first(S) == CHOOSE h \in S : \A g \in S : h <= g
      prios == {k \in 1..Len(content) : Kind(content[k]) = "prio"}
      whole(k) == CharStart(content, k) + TokLen(content[k]) - 1 <= winEnd
      quoted == {k \in prios : Val(content[k]) \in 1..3 /\ whole(k)
                               /\ CharStart(content, k) >= winStart}
      unquoted == {k \in prios : Val(content[k]) \in 1..3 /\ whole(k)
                                 /\ CharStart(content, k) + 1 >= winStart}
      anyWord == {k \in prios : /\ CharStart(content, k) + 1 >= winStart
                                /\ CharStart(content, k) + 14 <= winEnd}
  IN IF quoted # {} THEN PrioName(Val(content[first(quoted)]))
     ELSE IF unquoted # {} THEN PrioName(Val(content[first(unquoted)]))
     ELSE IF anyWord # {}
          THEN IF Val(content[first(anyWord)]) \in 1..3 /\ whole(first(anyWord))
               THEN PrioName(Val(content[first(anyWord)])) ELSE "medium"
     ELSE "none"

\* Math.max(...allIds) over content.match(/"id"\s*:\s*(\d+)/g)
maxId(content) ==
  LET ids == {Val(content[i]) : i \in {j \in 1..Len(content) : Kind(content[j]) = "id"}}
  IN IF ids = {} THEN 0 ELSE CHOOSE m \in ids : \A n \in ids : n <= m

\* displayPRDParsingProgress.latestTaskInfo = null
NoTaskInfo == [taskId |-> 0, title |-> 0, priority |-> "none", taskCount |-> 0]

\* what a step of the session emitted and rendered: the percentComplete of the
\* progress events of the last step and of the last one before it (-1: none),
\* the status renders likewise, the number of renders at 100, the ids of the
\* 'task' events of the session, the taskInfo objects they carried, the
\* number of calls of displayPRDParsingSummary and the ids of the task lines
\* printed
NoOut == [emitted |-> << >>, prevEmitted |-> -1,
          rendered |-> << >>, prevRendered |-> -1,
          renders100 |-> 0, taskEvents |-> << >>, taskInfos |-> << >>,
          summaries |-> 0, taskLines |-> << >>]

\* progress.emitProgress(data) and the onProgress handler of parsePRD
emitProgress(s, percentComplete, tokenCount, promptTokens, completionTokens, tasksGenerated) ==
  LET s1 == [s EXCEPT !.out.emitted = Append(@, percentComplete)]
  IN IF ~s.listeners THEN s1
     ELSE [s1 EXCEPT !.percentComplete = IF percentComplete # 0 THEN percentComplete ELSE @,
                     !.contextTokens = IF tokenCount # 0 THEN tokenCount ELSE @,
                     !.promptTokens = IF promptTokens # 0 THEN promptTokens ELSE @,
                     !.completionTokens = IF completionTokens # 0 THEN completionTokens ELSE @,
                     !.tasksGenerated = IF tasksGenerated # 0 THEN tasksGenerated ELSE @]

\* progress.emitTask(taskInfo) and the onTask handler of parsePRD
emitTask(s, taskInfo) ==
  LET s1 == [s EXCEPT !.out.taskEvents = Append(@, taskInfo.taskId),
                      !.out.taskInfos = Append(@, taskInfo)]
  IN IF ~s.listeners THEN s1
     ELSE [s1 EXCEPT !.tasksGenerated = taskInfo.taskCount,
                     !.latestTaskInfo = taskInfo]

\* the priority of a task of the second pass: the standard match, else altPatterns
detectedPriority(content, pos) ==
  IF priorityMatch(content, pos) # "none" THEN priorityMatch(content, pos)
  ELSE altPatterns(content, pos)

\* the task event reports the id where the code reports the count
eventTaskCountFromId(seen, taskId) == taskId

\* taskCount: seenTaskIds.size of the 'task' event
eventTaskCount(seen, taskId) == Cardinality(seen)

\* One id of the second pass: without title or priority it is skipped,
\* otherwise numTasks is revised and, if the id is new, it joins seenTaskIds
\* and the 'task' event is emitted.
detectTask(s, content, taskId, titleMatch, priority) ==
  LET revise == /\ s.numTasks = defaultNumTasks /\ taskId > 1
                /\ maxId(content) > s.numTasks
      s1 == [s EXCEPT !.numTasks = IF revise THEN maxId(content) ELSE @]
      grown == s.seenTaskIds \cup {taskId}
  IN IF ~titleMatch.found \/ priority = "none" THEN s
     ELSE IF Cardinality(grown) > Cardinality(s.seenTaskIds)
     THEN emitTask([s1 EXCEPT !.seenTaskIds = grown,
                              !.tasksGenerated = Cardinality(grown)],
                   [taskId |-> taskId, title |-> titleMatch.title,
                    priority |-> priority, taskCount |-> eventTaskCount(grown, taskId)])
     ELSE s1

\* The second pass of detectTasks over the new ids, lastIndex being the state
\* of titleRegex carried from one id to the next.
RECURSIVE detectLoop(_, _, _, _)
detectLoop(content, ids, lastIndex, s) ==
  IF ids = << >> THEN s
  ELSE LET pos == taskStartPos(content, Head(ids))
           titleMatch == titleRegexExec(content, pos, lastIndex)
       IN detectLoop(content, Tail(ids), titleMatch.lastIndex,
                     detectTask(s, content, Head(ids), titleMatch,
                                detectedPriority(content, pos)))

\* The end of detectTasks: the percent from the tokens and from the tasks
\* seen, and the progress event.
detectProgress(s, content, tokenCount) ==
  LET size == Cardinality(s.seenTaskIds)
      tokenBasedPercent == Min(99, (tokenCount * 100) \div s.estimatedTotalTokens)
      taskBasedPercent == IF size > 0
                          THEN Max(5, Min(90, (size * 100) \div s.numTasks)) ELSE 0
      nearingCompletion == HasMetadata(content) /\ size * 10 >= s.numTasks * 8
      finalizing == EndsWithBraces(content) /\ size > 0
      a1 == IF size > 0 THEN Max(tokenBasedPercent, taskBasedPercent) ELSE tokenBasedPercent
      a2 == IF nearingCompletion THEN Max(a1, 85) ELSE a1
      adjustedPercent == IF finalizing THEN Max(a2, 95) ELSE a2
      percentComplete == Min(99, Max(0, adjustedPercent))
  IN emitProgress(s, percentComplete * 1000, tokenCount, 0, 0, size)

\* detectTasks(content)
detectTasks(s, content) ==
  detectProgress(detectLoop(content, matchedTasks(content, s.seenTaskIds), 0, s),
                 content, calculateTokens(content))

-----------------------------------------------------------------------------
(* parsePRD: streamingTracker *)

\* the value of an arithmetic expression over undefined (taskWeights[i] beyond
\* the array): every comparison with it is false
NaN == -1

\* case 'generating_tasks' of streamingTracker, in whole percent.  The weight
\* of task i (from 0) is 0.5 + 0.5 i / (numTasks - 1), kept as numerator over
\* 2 (numTasks - 1).
generatingPercent(size, numTasks, content) ==
  LET weight(i) == (numTasks - 1) + i
      totalWeight == SumSeq([i \in 1..numTasks |-> weight(i - 1)])
      weightedProgress == SumSeq([i \in 1..size |-> weight(i - 1)])
      baseTaskProgress == IF size = 0 THEN 0
                          ELSE IF numTasks = 1 THEN size * 65
                          ELSE (weightedProgress * 65) \div totalWeight
      estimatedCurrentTaskProgress == IF HasIdText(content, size + 1) THEN 3 ELSE 0
      microProgressAddition ==
        IF numTasks > 1
        THEN (estimatedCurrentTaskProgress * 65 * weight(size)) \div (20 * numTasks * (numTasks - 1))
        ELSE (estimatedCurrentTaskProgress * 65) \div (10 * numTasks)
  IN IF numTasks > 1 /\ size > numTasks THEN NaN
     ELSE 25 + baseTaskProgress + (IF size < numTasks THEN microProgressAddition ELSE 0)

\* case 'analyzing'
analyzingPercent(contextTokens) ==
  Max(1, Min(24, (Min(1500, contextTokens) * 25) \div 1500))

\* case 'finalizing'
finalizingPercent(contextTokens, estimatedTotalTokens, content) ==
  IF HasGeneratedAt(content)
  THEN 95 + Min(4, (contextTokens * 5) \div estimatedTotalTokens)
  ELSE 90 + Min(5, (contextTokens * 10) \div estimatedTotalTokens)

\* streamingTracker.maxMicroProgressPerPhase
maxMicroProgressPerPhase(phase) ==
  CASE phase = "analyzing" -> 2500
    [] phase = "generating_tasks" -> 1000
    [] OTHER -> 800

\* const maxJump = 3
maxJump == 3000

\* streamingTracker.microUpdateInterval
microUpdateInterval == 200

\* The phase shown: finalizing only once every expected task was displayed.
currentPhase(s, content) ==
  LET size == Cardinality(s.seenTaskIds)
      contentPhase == IF size >= s.numTasks \/ HasMetadata(content) THEN "finalizing"
                      ELSE IF size > 0 THEN "generating_tasks" ELSE "analyzing"
  IN IF contentPhase = "finalizing" /\ s.display.lastTaskId >= s.numTasks THEN "finalizing"
     ELSE IF size > 0 THEN "generating_tasks"
     ELSE "analyzing"

\* the token counts of streamingTracker, from the chunk's usage or estimated
\* from the length of its text
updateTokenCounts(s, chunkInfo) ==
  LET prompt == IF chunkInfo.promptTokens # 0 THEN chunkInfo.promptTokens ELSE s.promptTokens
      completion == IF chunkInfo.completionTokens # 0 THEN chunkInfo.completionTokens
                    ELSE IF chunkInfo.deltaLen > 0
                         THEN s.completionTokens + CeilDiv(chunkInfo.deltaLen, 4)
                         ELSE s.completionTokens
  IN [s EXCEPT !.promptTokens = prompt, !.completionTokens = completion,
               !.contextTokens = prompt + completion,
               !.trackerStarted = TRUE]

\* calculatedPercentComplete of the phase, in whole percent
calculatedPercentComplete(s, phase, content) ==
  CASE phase = "analyzing" -> analyzingPercent(s.contextTokens)
    [] phase = "generating_tasks" ->
         generatingPercent(Cardinality(s.seenTaskIds), s.numTasks, content)
    [] OTHER -> finalizingPercent(s.contextTokens, s.estimatedTotalTokens, content)

\* "Ensure progress doesn't jump backwards" and "Limit sudden large jumps":
\* the calculated percent (in thousandths) after both
smoothedPercent(percentComplete, calculated) ==
  Min(Max(calculated, percentComplete), percentComplete + maxJump)

\* The micro-progress between real updates and the progress event; first:
\* lastMicroUpdateTime was set in this call; real: the percent moved.
microProgress(s, phase, chunkInfo, elapsed, first, real, percentComplete) ==
  LET sinceUpdate == IF real \/ first THEN 0 ELSE elapsed
      timeFactor == Min(200, sinceUpdate \div 20)
      tokenFactor == IF chunkInfo.deltaLen > 0
                     THEN Min(300, 2 * CeilDiv(chunkInfo.deltaLen, 4)) ELSE 0
      micro0 == IF real THEN 0 ELSE s.microProgress
      micro1 == IF sinceUpdate >= microUpdateInterval
                THEN Min(micro0 + Min(timeFactor + tokenFactor, 500),
                         maxMicroProgressPerPhase(phase))
                ELSE micro0
  IN emitProgress([s EXCEPT !.percentComplete = percentComplete, !.microProgress = micro1],
                  Min(98000, percentComplete + micro1),
                  s.contextTokens, chunkInfo.promptTokens, chunkInfo.completionTokens,
                  Cardinality(s.seenTaskIds))

\* streamingTracker from the phase on; calculated is NaN or whole percent
trackProgress(s, phase, calculated, chunkInfo, elapsed, first) ==
  LET real == /\ calculated # NaN
              /\ smoothedPercent(s.percentComplete, calculated * 1000) > s.percentComplete
      percentComplete == IF real
                         THEN Min(99000, smoothedPercent(s.percentComplete, calculated * 1000))
                         ELSE s.percentComplete
  IN microProgress(s, phase, chunkInfo, elapsed, first, real, percentComplete)

\* streamingTracker after detectTasks and the token counts.  The assignment
\* to the const estimatedTotalTokens raises a TypeError.
trackPhase(s, content, chunkInfo, elapsed, first) ==
  IF chunkInfo.promptTokens # 0 /\ s.estimatedTotalTokens # 0
  THEN [s EXCEPT !.thrown = TRUE]
  ELSE trackProgress(s, currentPhase(s, content),
                     calculatedPercentComplete(s, currentPhase(s, content), content),
                     chunkInfo, elapsed, first)

\* streamingTracker(content, chunkInfo); elapsed is the time in ms since
\* streamingTracker.lastMicroUpdateTime was set.
streamingTracker(s0, content, chunkInfo, elapsed) ==
  trackPhase(updateTokenCounts(detectTasks(s0, content), chunkInfo),
             content, chunkInfo, elapsed, ~s0.trackerStarted)

-----------------------------------------------------------------------------
(* ui.js: displayPRDParsingProgress and its static state *)

\* the statics before the first call of the process
NewDisplay == [initialized |-> "undefined", statusLineStarted |-> FALSE,
               detectedTasks |-> {}, lastTaskId |-> 0, lastPercentComplete |-> 0,
               actualTaskCount |-> 0, hasCompletedBefore |-> FALSE]

\* if (displayPRDParsingProgress.initialized === undefined) { ... }
initStatics(d) ==
  IF d.initialized = "undefined"
  THEN [d EXCEPT !.initialized = "false", !.statusLineStarted = FALSE,
                 !.detectedTasks = {}, !.lastTaskId = 0, !.lastPercentComplete = 0,
                 !.actualTaskCount = 0]
  ELSE d

\* the reset at the end of the first completed render of the process
completionReset(d) ==
  [d EXCEPT !.hasCompletedBefore = TRUE, !.initialized = "undefined",
            !.statusLineStarted = FALSE, !.detectedTasks = {}, !.lastTaskId = 0,
            !.lastPercentComplete = 0, !.actualTaskCount = 0]

\* the percent as requested, without the maximum
requestedPercentComplete(lastPercentComplete, percentComplete, completed) ==
  IF completed THEN 100000 ELSE percentComplete

\* let smoothPercentComplete of the full render path: 100 when completed,
\* else Math.max(lastPercentComplete || 0, percentComplete)
smoothPercentComplete(lastPercentComplete, percentComplete, completed) ==
  IF completed THEN 100000 ELSE Max(lastPercentComplete, percentComplete)

\* displayPRDParsingProgress(progressData): the statics afterwards and the
\* status lines written (percent shown, completed, task line printed)
displayPRDParsingProgress(d0, data) ==
  LET d == initStatics(d0)
      taskInfo == data.taskInfo
      hasTask == taskInfo.taskId # 0
      d1 == IF hasTask
            THEN [d EXCEPT !.actualTaskCount =
                             IF taskInfo.taskCount # 0 THEN taskInfo.taskCount
                             ELSE IF taskInfo.taskId \notin d.detectedTasks THEN @ + 1
                             ELSE @,
                           !.detectedTasks = @ \cup {taskInfo.taskId}]
            ELSE d
      percentShown == smoothPercentComplete(d1.lastPercentComplete,
                                            data.percentComplete, data.completed)
      d2 == IF data.completed THEN d1
            ELSE [d1 EXCEPT !.lastPercentComplete = percentShown]
      displayedTasks == IF data.completed THEN data.totalTasks
                        ELSE IF hasTask /\ taskInfo.taskCount # 0 THEN taskInfo.taskCount
                        ELSE IF data.tasksGenerated > 0 THEN data.tasksGenerated
                        ELSE d2.actualTaskCount
      d3 == [d2 EXCEPT !.actualTaskCount = IF data.completed THEN @ ELSE displayedTasks,
                       !.statusLineStarted = TRUE]
      taskLine == hasTask /\ taskInfo.taskId > d3.lastTaskId
      d4 == IF taskLine THEN [d3 EXCEPT !.lastTaskId = taskInfo.taskId] ELSE d3
      d5 == IF data.completed /\ ~d4.hasCompletedBefore THEN completionReset(d4) ELSE d4
  IN IF data.microProgress /\ ~data.completed
     THEN [d |-> [d EXCEPT !.lastPercentComplete = data.percentComplete],
           shown |-> IF d.statusLineStarted
                     THEN << [percent |-> data.percentComplete, completed |-> FALSE,
                              tasks |-> d.actualTaskCount, total |-> data.totalTasks,
                              taskLine |-> 0] >>
                     ELSE << >>]
     ELSE [d |-> d5,
           shown |-> << [percent |-> percentShown, completed |-> data.completed,
                         tasks |-> displayedTasks, total |-> data.totalTasks,
                         taskLine |-> IF taskLine THEN taskInfo.taskId ELSE 0] >>]

\* a call of displayPRDParsingProgress made by the session
render(s, data) ==
  LET r == displayPRDParsingProgress(s.display, data)
      hundreds == Cardinality({i \in DOMAIN r.shown : r.shown[i].percent = 100000})
  IN [s EXCEPT !.display = r.d,
               !.out.rendered = @ \o r.shown,
               !.out.renders100 = @ + hundreds,
               !.out.taskLines = @ \o SelectSeq([i \in DOMAIN r.shown |-> r.shown[i].taskLine],
                                                LAMBDA id : id # 0)]

-----------------------------------------------------------------------------
(* parsePRD: the session *)

\* systemPrompt.length for a prdPath of 7 characters, no CONFIG.projectName
systemPromptLength(numTasks) == 1532 + 4 * Digits(numTasks)

\* The state of parsePRD at its try block: the debug listener is on the
\* process, the cancellation handler is not registered yet; d is the static
\* display state the process is in.
called(d, numTasks, prdLength) ==
  LET n == IF numTasks <= 0 THEN defaultNumTasks ELSE numTasks
  IN [pc |-> "called",
      numTasks |-> n,
      estimatedTotalTokens |-> CeilDiv(prdLength, 4) + 1000,
      percentComplete |-> 0,
      contextTokens |-> 0,
      promptTokens |-> CeilDiv(prdLength, 4) + CeilDiv(systemPromptLength(n), 4) + 100,
      completionTokens |-> 0,
      tasksGenerated |-> 0,
      seenTaskIds |-> {},
      microProgress |-> 0,
      trackerStarted |-> FALSE,
      latestTaskInfo |-> NoTaskInfo,
      progressInterval |-> FALSE,
      listeners |-> FALSE,
      sigintHandler |-> FALSE,
      debugSignalListener |-> TRUE,
      registrations |-> 0,
      cancelled |-> FALSE,
      thrown |-> FALSE,
      error |-> "none",
      responseTasks |-> 0,
      display |-> d,
      out |-> NoOut]

\* registerSigintHandler(): process.on('SIGINT', sigintHandler), only if not
\* already registered; registrations counts the process.on calls
registerSigintHandler(s) ==
  IF ~s.sigintHandler THEN [s EXCEPT !.sigintHandler = TRUE, !.registrations = @ + 1]
  ELSE s

\* the try block up to the stream: the validation passed, the cancellation
\* handler, the progress listeners and progressInterval are set up
setup(s) ==
  [registerSigintHandler(s) EXCEPT !.pc = "streaming", !.listeners = TRUE,
                                   !.progressInterval = TRUE]

\* The state of parsePRD after progressInterval was set up and before the
\* stream is opened.
parsePRD(d, numTasks, prdLength) == setup(called(d, numTasks, prdLength))

\* no parsePRD call is in progress
NoSession == [called(NewDisplay, 1, 400) EXCEPT
                !.pc = "idle", !.debugSignalListener = FALSE]

\* the interval callback without its cap
totalProgressUncapped(percentComplete) == percentComplete

\* Math.min(99, percentComplete) of the interval callback
totalProgress(percentComplete) == Min(99000, percentComplete)

\* the callback of progressInterval; due: timeSinceLastUpdate >= 100
progressIntervalCallback(s, due) ==
  LET size == Cardinality(s.seenTaskIds)
      latestTaskInfo == s.latestTaskInfo
      direct == IF size = 0 THEN 0 ELSE (size * 95000) \div s.numTasks
      s1 == IF due
            THEN emitProgress([s EXCEPT !.percentComplete = direct], totalProgress(direct),
                              s.contextTokens, 0, 0, size)
            ELSE s
      s2 == render(s1, [percentComplete |-> totalProgress(s1.percentComplete),
                        tasksGenerated |-> size, totalTasks |-> s1.numTasks,
                        completed |-> FALSE, taskInfo |-> latestTaskInfo,
                        microProgress |-> FALSE])
  IN [s2 EXCEPT !.latestTaskInfo = NoTaskInfo]

\* cleanupSigintHandler() without its last two statements
cleanupSigintHandlerKeepsDebug(s) == [s EXCEPT !.sigintHandler = FALSE]

\* cleanupSigintHandler(): the cancellation handler, if registered, and the
\* debug listener are removed from the process
cleanupSigintHandler(s) ==
  [s EXCEPT !.sigintHandler = FALSE, !.debugSignalListener = FALSE]

\* cleanupResources() that leaves progressInterval running
cleanupResourcesKeepsInterval(s) ==
  [s EXCEPT !.sigintHandler = FALSE, !.debugSignalListener = FALSE, !.listeners = FALSE]

\* cleanupResources(): the SIGINT handler, the interval and the listeners
cleanupResources(s) ==
  [cleanupSigintHandler(s) EXCEPT !.progressInterval = FALSE, !.listeners = FALSE]

\* sigintHandler that leaves progressInterval running
sigintHandlerKeepsInterval(s) ==
  [s EXCEPT !.listeners = FALSE, !.sigintHandler = FALSE, !.debugSignalListener = FALSE,
            !.cancelled = TRUE]

\* sigintHandler(): the interval is cleared, the line is cleared and the
\* cancellation message shown, the listeners and the handler itself are
\* removed and process.exit(0) is scheduled 100 ms later
sigintHandler(s) ==
  [cleanupSigintHandler(s) EXCEPT !.progressInterval = FALSE, !.listeners = FALSE,
                                  !.cancelled = TRUE]

\* the catch blocks of parsePRD: the error is rethrown to the caller
fail(s, error) == cleanupResources([s EXCEPT !.pc = "failed", !.error = error])

\* an exception of streamingTracker leaves the stream loop and is rethrown
rethrow(s) == IF s.thrown THEN fail(s, "tracker") ELSE s

\* text with every }} written as } }
RECURSIVE Norm(_)
Norm(s) ==
  IF s = << >> THEN << >>
  ELSE (IF Head(s) = CLOSE2 THEN << CLOSE, CLOSE >> ELSE << Head(s) >>) \o Norm(Tail(s))

\* the number of objects of  o , o , ... , o  (each a valid brace-free object), or -1
RECURSIVE CountObjects(_)
CountObjects(a) ==
  IF a = << >> \/ Head(a) # OPEN \/ NextBrace(a, 1) = 0 THEN -1
  ELSE LET c == NextBrace(a, 1)
           rest == SubSeq(a, c + 2, Len(a))
       IN IF a[c] # CLOSE \/ ~JsonValid(SubSeq(a, 2, c - 1)) THEN -1
          ELSE IF c = Len(a) THEN 1
          ELSE IF a[c + 1] # COMMA \/ CountObjects(rest) = -1 THEN -1
          ELSE 1 + CountObjects(rest)

\* JSON.parse(buffer.match(/\{[\s\S]*\}/)[0]).tasks.length for a text of the
\* shape { "tasks": [ o , ... ] } or { "tasks": [ o , ... ] , "metadata": { m } },
\* -1 when the text is not that
parsedTasks(buffer) ==
  LET n == Norm(buffer)
      opens == {i \in 1..Len(n) : n[i] = OPEN}
      closes == {i \in 1..Len(n) : n[i] = CLOSE}
      from == CHOOSE i \in opens : \A j \in opens : i <= j
      to == CHOOSE i \in closes : \A j \in closes : j <= i
      json == SubSeq(n, from, to)
      ends == {i \in 1..Len(json) : json[i] = ARRCLOSE}
      aend == CHOOSE i \in ends : \A j \in ends : i <= j
      arr == SubSeq(json, 3, aend - 1)
      tail == SubSeq(json, aend + 1, Len(json) - 1)
  IN IF opens = {} \/ closes = {} \/ to < from THEN -1
     ELSE IF Len(json) < 4 \/ json[2] # TASKS \/ ends = {} THEN -1
     ELSE IF tail \notin {<< >>, << COMMA, META, OPEN, GEN, CLOSE >>,
                          << COMMA, META, OPEN, CLOSE >>} THEN -1
     ELSE IF arr = << >> THEN 0
     ELSE CountObjects(arr)

\* The recovery of parsePRD: /\{\s*"id"\s*:\s*(\d+)[\s\S]*?(?="id"|$)/g cuts the
\* buffer from a { that an id follows up to the next "id" (or the end), a
\* missing closing brace is appended, and the piece counts when JSON.parse
\* accepts it and it has an id and a title.  from is where the search resumes.
RECURSIVE recoveredTasks(_, _)
recoveredTasks(buffer, from) ==
  LET starts == {i \in from..(Len(buffer) - 1) :
                   buffer[i] = OPEN /\ Kind(buffer[i + 1]) = "id"}
      i == CHOOSE h \in starts : \A g \in starts : h <= g
      nexts == {j \in (i + 2)..Len(buffer) : Kind(buffer[j]) = "id"}
      stop == IF nexts = {} THEN Len(buffer) + 1
              ELSE CHOOSE h \in nexts : \A g \in nexts : h <= g
      piece == SubSeq(buffer, i + 1, stop - 1)
      inner == IF piece # << >> /\ piece[Len(piece)] = CLOSE
               THEN SubSeq(piece, 1, Len(piece) - 1) ELSE piece
      task == JsonParse(inner)
      ok == /\ \A k \in 1..Len(inner) : ~IsBrace(inner[k]) /\ inner[k] # CLOSE2
            /\ JsonValid(inner) /\ task.id # 0 /\ task.title # 0
  IN IF starts = {} THEN 0
     ELSE (IF ok THEN 1 ELSE 0) + recoveredTasks(buffer, stop)

\* the result of the recovery: the tasks found, -1 when there are none
recovered(n) == IF n > 0 THEN n ELSE -1

\* responseData.tasks.length after "Process the final response", -1 when that
\* block throws
responseTasks(buffer) ==
  IF parsedTasks(buffer) >= 0 THEN parsedTasks(buffer)
  ELSE recovered(recoveredTasks(buffer, 1))

\* the completed status is rendered, the tasks are validated and written, the
\* summary is shown (displayPRDParsingSummary) and the resources are cleaned up
complete(s, n) ==
  IF n = 0
  THEN fail(render([s EXCEPT !.percentComplete = 100000, !.responseTasks = n],
                   [percentComplete |-> 100000, tasksGenerated |-> n, totalTasks |-> n,
                    completed |-> TRUE, taskInfo |-> NoTaskInfo, microProgress |-> FALSE]),
            "no tasks")
  ELSE cleanupResources(
         [render([s EXCEPT !.percentComplete = 100000, !.responseTasks = n],
                 [percentComplete |-> 100000, tasksGenerated |-> n, totalTasks |-> n,
                  completed |-> TRUE, taskInfo |-> NoTaskInfo, microProgress |-> FALSE])
          EXCEPT !.pc = "done", !.out.summaries = @ + 1])

\* What follows the stream loop: the final response is parsed, then the
\* session completes or fails.
finishParse(s, n) == IF n = -1 THEN fail(s, "response") ELSE complete(s, n)

finishSession(s, buffer) == finishParse(s, responseTasks(buffer))

-----------------------------------------------------------------------------
(* Calls on the tracker *)

Count(seq, x) == Cardinality({i \in DOMAIN seq : seq[i] = x})

Task(i, t, p) == [id |-> i, title |-> t, priority |-> p]

\* tasks handed to tick directly: a high one, one without priority, one with a
\* priority outside high/medium/low, one with its priority in capitals
TickTasks == {Task(1, 1, "high"), Task(2, 2, "none"), Task(3, 3, "urgent"),
              Task(4, 4, "LOW")}

\* taskInfo.taskCount of trackTask, 0 for absent
TaskCounts == {0, 2}

TokenDeltas == {<<0, 0>>, <<MaxTokenDelta, MaxTokenDelta + 1>>}

TrackerStreams == {Obj(1, 1, 1), ObjNoPrio(2, 2) \o << COMMA >>}

DetectStreams ==
  {Obj(1, 1, 1) \o Obj(2, 2, 3) \o Obj(1, 1, 1),
   Obj(2, 2, 1) \o ObjNoPrio(1, 1) \o Obj(2, 2, 1),
   << OPEN, Tok("tasks", 0) >> \o Obj(3, 1, 2) \o << COMMA >> \o Obj(3, 0, 2) \o Obj(3, 1, 2),
   Obj(2, 2, 3) \o Obj(1, 1, 1)}

Modes == {<<FALSE, FALSE, FALSE>>, <<TRUE, FALSE, FALSE>>, <<TRUE, TRUE, FALSE>>,
          <<TRUE, FALSE, TRUE>>, <<TRUE, TRUE, TRUE>>}

\* lastOp: the method called last; streak: how many times in a row; ticked: the
\* ids updateStreamedJson handed to tick and tasks: the task objects it handed
\* to tick; withCallback: the last call was given a summary callback;
\* finished: a finish call has run to its end on a started tracker;
\* estimate: what the last calculateTokens call returned.
NoHist == [lastOp |-> "new", ticked |-> << >>, tasks |-> << >>, streak |-> 0,
           withCallback |-> FALSE, finished |-> FALSE, estimate |-> -1]

Called(op, more) == [hist EXCEPT !.lastOp = op, !.ticked = @ \o more,
                                 !.streak = IF op = hist.lastOp THEN @ + 1 ELSE 1,
                                 !.withCallback = FALSE]

\* no second tracker
NoTwin == [variant |-> "none"]

Start(total, tIn) ==
  /\ calls < MaxCalls
  /\ tr' = start(tr, calls + 1, total, tIn, 0)
  /\ hist' = Called("start", << >>)
  /\ calls' = calls + 1
  /\ UNCHANGED <<stream, fed, ps, chunkSize, twin>>

Tick(task, d) ==
  /\ calls < MaxCalls
  /\ tr' = tick(tr, task, d[1], d[2])
  /\ hist' = Called("tick", << >>)
  /\ calls' = calls + 1
  /\ UNCHANGED <<stream, fed, ps, chunkSize, twin>>

UpdateTokens(d) ==
  /\ calls < MaxCalls
  /\ tr' = updateTokens(tr, d[1], d[2])
  /\ hist' = Called("updateTokens", << >>)
  /\ calls' = calls + 1
  /\ UNCHANGED <<stream, fed, ps, chunkSize, twin>>

Finish(success, withCallback) ==
  /\ calls < MaxCalls
  /\ tr' = finish(tr, calls + 1, success, withCallback)
  /\ hist' = [Called("finish", << >>) EXCEPT
                !.withCallback = withCallback,
                !.finished = @ \/ (tr.startTime # 0 /\ ~tr'.threw)]
  /\ calls' = calls + 1
  /\ UNCHANGED <<stream, fed, ps, chunkSize, twin>>

TrackTask(taskInfo, taskCount) ==
  /\ calls < MaxCalls
  /\ tr' = trackTask(tr, taskInfo, taskCount)
  /\ hist' = Called("trackTask", << >>)
  /\ calls' = calls + 1
  /\ UNCHANGED <<stream, fed, ps, chunkSize, twin>>

\* the stream consumer hands the next k tokens to updateStreamedJson
Feed(k) ==
  /\ calls < MaxCalls
  /\ tr.variant = "current"
  /\ LET r == updateStreamedJson(tr, SubSeq(stream, fed + 1, fed + k))
     IN /\ tr' = r.t
        /\ hist' = [Called("updateStreamedJson", r.ticked) EXCEPT !.tasks = @ \o r.tasks]
  /\ fed' = fed + k
  /\ calls' = calls + 1
  /\ UNCHANGED <<stream, ps, chunkSize, twin>>

TrackerInit ==
  /\ \E v \in {"early", "current"}, m \in Modes : tr = NewTracker(v, m[1], m[2], m[3])
  /\ stream \in TrackerStreams
  /\ fed = 0
  /\ calls = 0
  /\ hist = NoHist
  /\ ps = NoSession
  /\ chunkSize = 0
  /\ twin = NoTwin

TrackerNext ==
  \/ \E total \in {0, 1}, tIn \in {0, 1} : Start(total, tIn)
  \/ \E task \in TickTasks, d \in TokenDeltas : Tick(task, d)
  \/ \E d \in TokenDeltas : UpdateTokens(d)
  \/ \E success \in BOOLEAN, cb \in BOOLEAN : Finish(success, cb)
  \/ \E k \in 1..(Len(stream) - fed) : Feed(k)
  \/ \E task \in TickTasks, n \in TaskCounts : TrackTask(task, n)

TrackerSpec == TrackerInit /\ [][TrackerNext]_vars

-----------------------------------------------------------------------------
(* calculateTokens called on its own *)

MaxTextLen == 3

EstimatorAlphabet ==
  {OPEN, Tok("id", 1), Tok("title", 1), Tok("word", 1), Tok("word", 10), GEN}

RECURSIVE TextsOf(_)
TextsOf(n) ==
  IF n = 0 THEN {<< >>}
  ELSE TextsOf(n - 1) \cup {Append(t, c) : t \in TextsOf(n - 1), c \in EstimatorAlphabet}

CalculateTokens ==
  /\ hist.lastOp = "new"
  /\ hist' = [hist EXCEPT !.lastOp = "calculateTokens", !.estimate = calculateTokens(stream)]
  /\ UNCHANGED <<tr, stream, fed, calls, ps, chunkSize, twin>>

EstimatorInit ==
  /\ stream \in TextsOf(MaxTextLen)
  /\ tr = NoTwin
  /\ twin = NoTwin
  /\ fed = 0
  /\ calls = 0
  /\ hist = NoHist
  /\ ps = NoSession
  /\ chunkSize = 0

EstimatorNext == CalculateTokens

EstimatorSpec == EstimatorInit /\ [][EstimatorNext]_vars

-----------------------------------------------------------------------------
(* updateGitignore.  A file is the sequence of its lines; << >> is the file *)
(* that does not exist.                                                     *)

\* l.trim(), on the lines of the model
Trim(l) ==
  CASE l = "  # Task files" -> "# Task files"
    [] l = " #tasks.json " -> "#tasks.json"
    [] OTHER -> l

\* l.trim().replace(/^#/, '').trim()
Trimmed(l) ==
  CASE l \in {"tasks.json", "# tasks.json", " #tasks.json "} -> "tasks.json"
    [] l \in {"tasks/", "# tasks/"} -> "tasks/"
    [] l = "## tasks.json" -> "# tasks.json"
    [] l \in {"# Task files", "  # Task files"} -> "Task files"
    [] OTHER -> l

\* trimmed === 'tasks.json' || trimmed === 'tasks/'
IsTaskLine(l) == Trimmed(l) \in {"tasks.json", "tasks/"}

\* templateLines.findIndex(...), 0 for -1
FindIndex(lines, name) ==
  IF \E i \in DOMAIN lines : Trimmed(lines[i]) = name
  THEN CHOOSE i \in DOMAIN lines :
         /\ Trimmed(lines[i]) = name
         /\ \A j \in 1..(i - 1) : Trimmed(lines[j]) # name
  ELSE 0

\* the template with the first tasks.json and the first tasks/ line adjusted
templateLines(content, storeTasksInGit) ==
  [i \in DOMAIN content |->
     IF i = FindIndex(content, "tasks.json")
     THEN (IF storeTasksInGit THEN "# tasks.json" ELSE "tasks.json")
     ELSE IF i = FindIndex(content, "tasks/")
     THEN (IF storeTasksInGit THEN "# tasks/" ELSE "tasks/")
     ELSE content[i]]

\* a filter that removes every line mentioning tasks.json or tasks/
existingLinesLoose(file) ==
  SelectSeq(file, LAMBDA l : ~IsTaskLine(l) /\ l # "## tasks.json")

\* existingLines after the filter: no version of the two lines
existingLines(file) == SelectSeq(file, LAMBDA l : ~IsTaskLine(l))

\* the task lines of the template that existingLines does not hold
taskLines(template, existing) ==
  SelectSeq(template,
            LAMBDA l : /\ IsTaskLine(l)
                       /\ ~\E i \in DOMAIN existing : Trimmed(existing[i]) = Trimmed(l))

\* the comparison without trim
hasTaskFilesCommentExact(lines) == \E i \in DOMAIN lines : lines[i] = "# Task files"

\* finalLines.some((l) => l.trim() === '# Task files')
hasTaskFilesComment(lines) == \E i \in DOMAIN lines : Trim(lines[i]) = "# Task files"

\* finalLines as written by join('\n') and read again by split('\n'): the
\* empty text is one empty line
finalLines(existing, added) ==
  IF added = << >> THEN (IF existing = << >> THEN << "" >> ELSE existing)
  ELSE existing \o (IF hasTaskFilesComment(existing) THEN << >> ELSE << "# Task files" >>)
                \o added

\* updateGitignore(targetPath, content, storeTasksInGit, log); isGitignore:
\* path.basename(targetPath) === '.gitignore'
updateGitignore(file, isGitignore, content, storeTasksInGit) ==
  IF ~isGitignore THEN file
  ELSE finalLines(existingLines(file),
                  taskLines(templateLines(content, storeTasksInGit),
                            existingLines(file)))

MaxLines == 3

GitignoreLines ==
  {"node_modules", "", "tasks.json", "# tasks.json", " #tasks.json ", "tasks/", "# tasks/",
   "## tasks.json", "# Task files", "  # Task files"}

\* the .gitignore template of the package, in the forms a caller may pass
Templates ==
  {<< "node_modules", "# Task files", "tasks.json", "tasks/" >>,
   << "# Task files", "# tasks/", " #tasks.json " >>}

RECURSIVE FilesOf(_)
FilesOf(n) ==
  IF n = 0 THEN {<< >>}
  ELSE FilesOf(n - 1) \cup {Append(f, l) : f \in FilesOf(n - 1), l \in GitignoreLines}

UpdateGitignore(isGitignore, content, storeTasksInGit) ==
  /\ calls < MaxCalls
  /\ stream' = updateGitignore(stream, isGitignore, content, storeTasksInGit)
  /\ hist' = [hist EXCEPT !.lastOp = IF isGitignore THEN "updateGitignore" ELSE "return",
                          !.withCallback = storeTasksInGit]
  /\ calls' = calls + 1
  /\ UNCHANGED <<tr, fed, ps, chunkSize, twin>>

GitignoreInit ==
  /\ stream \in FilesOf(MaxLines)
  /\ tr = NoTwin
  /\ twin = NoTwin
  /\ fed = 0
  /\ calls = 0
  /\ hist = NoHist
  /\ ps = NoSession
  /\ chunkSize = 0

GitignoreNext ==
  \E isGitignore \in BOOLEAN, content \in Templates, storeTasksInGit \in BOOLEAN :
    UpdateGitignore(isGitignore, content, storeTasksInGit)

GitignoreSpec == GitignoreInit /\ [][GitignoreNext]_vars

-----------------------------------------------------------------------------
(* Two trackers given the same calls: tr writes to a TTY, twin does not *)

BothStart(total, tIn) ==
  /\ calls < MaxCalls
  /\ tr' = start(tr, calls + 1, total, tIn, 0)
  /\ twin' = start(twin, calls + 1, total, tIn, 0)
  /\ hist' = Called("start", << >>)
  /\ calls' = calls + 1
  /\ UNCHANGED <<stream, fed, ps, chunkSize>>

BothTick(task, d) ==
  /\ calls < MaxCalls
  /\ tr' = tick(tr, task, d[1], d[2])
  /\ twin' = tick(twin, task, d[1], d[2])
  /\ hist' = Called("tick", << >>)
  /\ calls' = calls + 1
  /\ UNCHANGED <<stream, fed, ps, chunkSize>>

BothUpdateTokens(d) ==
  /\ calls < MaxCalls
  /\ tr' = updateTokens(tr, d[1], d[2])
  /\ twin' = updateTokens(twin, d[1], d[2])
  /\ hist' = Called("updateTokens", << >>)
  /\ calls' = calls + 1
  /\ UNCHANGED <<stream, fed, ps, chunkSize>>

BothFinish(success, withCallback) ==
  /\ calls < MaxCalls
  /\ tr' = finish(tr, calls + 1, success, withCallback)
  /\ twin' = finish(twin, calls + 1, success, withCallback)
  /\ hist' = [Called("finish", << >>) EXCEPT
                !.withCallback = withCallback,
                !.finished = @ \/ (tr.startTime # 0 /\ ~tr'.threw)]
  /\ calls' = calls + 1
  /\ UNCHANGED <<stream, fed, ps, chunkSize>>

BothFeed(k) ==
  /\ calls < MaxCalls
  /\ tr.variant = "current"
  /\ LET chunk == SubSeq(stream, fed + 1, fed + k)
     IN /\ tr' = updateStreamedJson(tr, chunk).t
        /\ twin' = updateStreamedJson(twin, chunk).t
        /\ hist' = [Called("updateStreamedJson", updateStreamedJson(tr, chunk).ticked)
                      EXCEPT !.tasks = @ \o updateStreamedJson(tr, chunk).tasks]
  /\ fed' = fed + k
  /\ calls' = calls + 1
  /\ UNCHANGED <<stream, ps, chunkSize>>

HeadlessInit ==
  /\ \E v \in {"early", "current"}, ci \in BOOLEAN, broken \in BOOLEAN :
       /\ tr = NewTracker(v, TRUE, ci, broken)
       /\ twin = NewTracker(v, FALSE, ci, broken)
  /\ stream \in TrackerStreams
  /\ fed = 0
  /\ calls = 0
  /\ hist = NoHist
  /\ ps = NoSession
  /\ chunkSize = 0

HeadlessNext ==
  \/ \E total \in {0, 1}, tIn \in {0, 1} : BothStart(total, tIn)
  \/ \E task \in TickTasks, d \in TokenDeltas : BothTick(task, d)
  \/ \E d \in TokenDeltas : BothUpdateTokens(d)
  \/ \E success \in BOOLEAN, cb \in BOOLEAN : BothFinish(success, cb)
  \/ \E k \in 1..(Len(stream) - fed) : BothFeed(k)

HeadlessSpec == HeadlessInit /\ [][HeadlessNext]_vars

DetectInit ==
  /\ \E m \in Modes : tr = NewTracker("current", m[1], m[2], m[3])
  /\ stream \in DetectStreams
  /\ fed = 0
  /\ calls = 0
  /\ hist = NoHist
  /\ ps = NoSession
  /\ chunkSize = 0
  /\ twin = NoTwin

DetectNext ==
  \/ \E total \in {0, 1} : Start(total, 0)
  \/ \E k \in 1..(Len(stream) - fed) : Feed(k)

DetectSpec == DetectInit /\ [][DetectNext]_vars

-----------------------------------------------------------------------------
(* parsePRD: the events of a session *)

\* the responses streamed: two tasks and the metadata; three tasks, task 3
\* with a priority outside high/medium/low and task 2 restated; a response cut off
\* inside its first task; a response without tasks
ParseStreams ==
  {<< OPEN, TASKS >> \o Obj(1, 1, 1) \o << COMMA >> \o Obj(2, 2, 3)
      \o << ARRCLOSE, COMMA, META, OPEN, GEN, CLOSE2 >>,
   << OPEN, TASKS >> \o Obj(1, 1, 1) \o << COMMA >> \o Obj(3, 3, 4) \o << COMMA >>
      \o Obj(2, 2, 2) \o << COMMA >> \o Obj(2, 2, 2) \o << ARRCLOSE, CLOSE >>,
   << OPEN, TASKS, OPEN, Tok("id", 1), COMMA, Tok("title", 1) >>,
   << OPEN, TASKS, ARRCLOSE, CLOSE >>}

\* the numTasks argument (0: none given) and prdContent.length
NumTasksArgs == {0, 2}
PrdLengths == {400}

\* chunk.usage / chunk.message.usage: <<input_tokens, output_tokens>>, 0 for absent
Usages == {<<0, 0>>, <<0, 50>>, <<600, 50>>}

\* milliseconds since streamingTracker.lastMicroUpdateTime
Elapsed == {0, 4000}

\* tokens per content_block_delta: the response arrives a few tokens at a
\* time (two grains, so that chunks end at different places of an object) or
\* in one piece
ChunkSizes(response) == {4, 5, Len(response)}

\* A step of the session begins: what the step before emitted and rendered
\* becomes the previous sample.
Step(s) ==
  [s EXCEPT !.out.prevEmitted = IF s.out.emitted = << >> THEN @
                                ELSE s.out.emitted[Len(s.out.emitted)],
            !.out.emitted = << >>,
            !.out.prevRendered = IF s.out.rendered = << >> THEN @
                                 ELSE s.out.rendered[Len(s.out.rendered)].percent,
            !.out.rendered = << >>]

\* for await (const chunk of stream): a content_block_delta of k tokens
Chunk(size, usage, elapsed) ==
  /\ ps.pc = "streaming"
  /\ fed < Len(stream)
  /\ LET content == SubSeq(stream, 1, Min(fed + size, Len(stream)))
         chunkMetadata == [deltaLen |-> TextLen(content) - TextLen(SubSeq(stream, 1, fed)),
                           promptTokens |-> usage[1], completionTokens |-> usage[2]]
     IN ps' = rethrow(streamingTracker(Step(ps), content, chunkMetadata, elapsed))
  /\ fed' = Min(fed + size, Len(stream))
  /\ UNCHANGED <<tr, stream, calls, hist, chunkSize, twin>>

\* message_stop with usage: the token counts are taken over and
\* streamingTracker runs on the whole text
messageStop(s, buffer, usage, elapsed) ==
  LET promptTokens == IF usage[1] # 0 THEN usage[1] ELSE s.promptTokens
      completionTokens == IF usage[2] # 0 THEN usage[2] ELSE s.completionTokens
  IN IF usage = <<0, 0>> THEN s
     ELSE streamingTracker([s EXCEPT !.promptTokens = promptTokens,
                                     !.completionTokens = completionTokens,
                                     !.contextTokens = promptTokens + completionTokens],
                           buffer,
                           [deltaLen |-> 0, promptTokens |-> usage[1],
                            completionTokens |-> usage[2]],
                           elapsed)

\* the end of the loop and the rest of parsePRD
afterStream(s, buffer) == IF s.thrown THEN fail(s, "tracker") ELSE finishSession(s, buffer)

\* message_stop (with or without usage), the end of the loop and the rest of
\* parsePRD, which runs without yielding to timers
StreamEnd(usage, elapsed) ==
  /\ ps.pc = "streaming"
  /\ fed = Len(stream)
  /\ ps' = afterStream(messageStop(Step(ps), stream, usage, elapsed), stream)
  /\ UNCHANGED <<tr, stream, fed, calls, hist, chunkSize, twin>>

\* the stream raises (network error, API error)
StreamError ==
  /\ ps.pc = "streaming"
  /\ ps' = fail(Step(ps), "stream")
  /\ UNCHANGED <<tr, stream, fed, calls, hist, chunkSize, twin>>

\* progressInterval fires
IntervalTick(due) ==
  /\ ps.progressInterval
  /\ ps' = progressIntervalCallback(Step(ps), due)
  /\ UNCHANGED <<tr, stream, fed, calls, hist, chunkSize, twin>>

\* the user presses Control-C while the handler of parsePRD is registered
Sigint ==
  /\ ps.sigintHandler
  /\ ps' = sigintHandler(Step(ps))
  /\ UNCHANGED <<tr, stream, fed, calls, hist, chunkSize, twin>>

\* the timeout set by sigintHandler fires: process.exit(0)
ProcessExit ==
  /\ ps.cancelled
  /\ ps.pc # "exited"
  /\ ps' = [Step(ps) EXCEPT !.pc = "exited"]
  /\ UNCHANGED <<tr, stream, fed, calls, hist, chunkSize, twin>>

ParseInit ==
  /\ tr = NewTracker("current", FALSE, FALSE, FALSE)
  /\ calls = 0
  /\ hist = NoHist
  /\ stream \in ParseStreams
  /\ fed = 0
  /\ chunkSize \in ChunkSizes(stream)
  /\ \E n \in NumTasksArgs, l \in PrdLengths : ps = parsePRD(NewDisplay, n, l)
  /\ twin = NoTwin

ParseNext ==
  \/ \E u \in Usages, e \in Elapsed : Chunk(chunkSize, u, e)
  \/ \E u \in Usages, e \in Elapsed : StreamEnd(u, e)
  \/ StreamError
  \/ \E due \in BOOLEAN : IntervalTick(due)

ParseSpec == ParseInit /\ [][ParseNext]_vars

\* parsePRD is called again in the same process, after a session that
\* completed: the statics of displayPRDParsingProgress are what that session
\* left; calls counts the sessions that went before.
NextSession ==
  /\ ps.pc = "done"
  /\ calls < MaxSessions - 1
  /\ \E n \in NumTasksArgs, l \in PrdLengths : ps' = parsePRD(ps.display, n, l)
  /\ fed' = 0
  /\ calls' = calls + 1
  /\ UNCHANGED <<tr, stream, hist, chunkSize, twin>>

\* consecutive sessions of one process on the same response, without usage
\* data and with the time since the last micro-progress update left at 0
SessionsNext ==
  \/ Chunk(chunkSize, <<0, 0>>, 0)
  \/ StreamEnd(<<0, 0>>, 0)
  \/ \E due \in BOOLEAN : IntervalTick(due)
  \/ NextSession

SessionsSpec == ParseInit /\ [][SessionsNext]_vars

\* a session that the user may interrupt at any point; the time since the
\* last micro-progress update is left at 0
CancelNext ==
  \/ \E u \in Usages : Chunk(chunkSize, u, 0)
  \/ \E u \in Usages : StreamEnd(u, 0)
  \/ StreamError
  \/ \E due \in BOOLEAN : IntervalTick(due)
  \/ Sigint
  \/ ProcessExit

CancelSpec == ParseInit /\ [][CancelNext]_vars

\* parsePRD from its first statement: the call is at the try block
CallInit ==
  /\ tr = NewTracker("current", FALSE, FALSE, FALSE)
  /\ calls = 0
  /\ hist = NoHist
  /\ stream \in ParseStreams
  /\ fed = 0
  /\ chunkSize \in ChunkSizes(stream)
  /\ \E n \in NumTasksArgs, l \in PrdLengths : ps = called(NewDisplay, n, l)
  /\ twin = NoTwin

\* the input validation throws (no path, no file, no API key): the catch
\* block cleans up and rethrows
InvalidInput ==
  /\ ps.pc = "called"
  /\ ps' = fail(Step(ps), "input")
  /\ UNCHANGED <<tr, stream, fed, calls, hist, chunkSize, twin>>

\* the validation passes and parsePRD runs up to the stream
Setup ==
  /\ ps.pc = "called"
  /\ ps' = setup(Step(ps))
  /\ UNCHANGED <<tr, stream, fed, calls, hist, chunkSize, twin>>

\* the PRD file read after the registration is empty
EmptyPrd ==
  /\ ps.pc = "streaming"
  /\ fed = 0
  /\ ps' = fail(Step(ps), "empty")
  /\ UNCHANGED <<tr, stream, fed, calls, hist, chunkSize, twin>>

ExitNext ==
  \/ InvalidInput
  \/ Setup
  \/ EmptyPrd
  \/ \E u \in Usages : Chunk(chunkSize, u, 0)
  \/ \E u \in Usages : StreamEnd(u, 0)
  \/ StreamError
  \/ \E due \in BOOLEAN : IntervalTick(due)
  \/ Sigint
  \/ ProcessExit

ExitSpec == CallInit /\ [][ExitNext]_vars

-----------------------------------------------------------------------------
(* Properties of a parsePRD session *)

\* the percentComplete of the progress events up to and including the last
\* step, from the last one before that step on
EmittedSamples ==
  (IF ps.out.prevEmitted = -1 THEN << >> ELSE << ps.out.prevEmitted >>) \o ps.out.emitted

\* the percentages of the status renders, likewise
RenderedSamples ==
  (IF ps.out.prevRendered = -1 THEN << >> ELSE << ps.out.prevRendered >>)
     \o [i \in DOMAIN ps.out.rendered |-> ps.out.rendered[i].percent]

\* the ids that n or more complete task objects (id, title and priority in one
\* pair of braces) of the text carry
CompleteIds(text, n) ==
  LET objs == {m \in DOMAIN text :
                 /\ \E i \in DOMAIN taskRegex(text) : taskRegex(text)[i] = m
                 /\ LET inner == SubSeq(text, m + 1, NextBrace(text, m) - 1)
                    IN /\ JsonValid(inner)
                       /\ JsonParse(inner).title # 0
                       /\ JsonParse(inner).priority # "none"}
      idOf(m) == JsonParse(SubSeq(text, m + 1, NextBrace(text, m) - 1)).id
  IN {id \in {idOf(m) : m \in objs} : Cardinality({m \in objs : idOf(m) = id}) >= n}

\* C1: no id is handed to tick, and no id is carried by a 'task' event, more
\* than once in a session; and when the whole response has been processed,
\* every id that several complete task objects of it carry was handed to tick
\* (resp. carried by a 'task' event) exactly once.
C1_RepeatedIdFiresExactlyOnce ==
  /\ \A id \in CompleteIds(stream, 1) :
       Count(ps.out.taskEvents, id) <= 1 /\ Count(hist.ticked, id) <= 1
  /\ ps.pc = "done" =>
       \A id \in CompleteIds(stream, 2) : Count(ps.out.taskEvents, id) = 1
  /\ (tr.startTime # 0 /\ fed = Len(stream) /\ hist.lastOp = "updateStreamedJson") =>
       \A id \in CompleteIds(stream, 2) : Count(hist.ticked, id) = 1

\* C2: the percentComplete of an emitted progress event is never below that of
\* the event emitted before it.
C2_EmittedPercentNeverDecreases ==
  \A i \in 1..(Len(EmittedSamples) - 1) : EmittedSamples[i] <= EmittedSamples[i + 1]

\* C3: before completion, the percent of a progress event, and of a status
\* render, exceeds that of the one before it by at most 3 points.
C3_StepAtMostMaxJump ==
  /\ \A i \in 1..(Len(EmittedSamples) - 1) :
       EmittedSamples[i + 1] - EmittedSamples[i] <= maxJump
  /\ ps.pc = "streaming" =>
       \A i \in 1..(Len(RenderedSamples) - 1) :
         RenderedSamples[i + 1] - RenderedSamples[i] <= maxJump

\* C4: every emitted progress event has a percent within 0..99, every status
\* render of a running session too, and a render shows 100 only when it is the
\* completed render made after the stream has ended and the response was read.
C4_PercentWithinRange ==
  /\ \A i \in DOMAIN EmittedSamples : EmittedSamples[i] \in 0..99000
  /\ \A i \in DOMAIN ps.out.rendered :
       LET r == ps.out.rendered[i]
       IN IF r.completed
          THEN /\ r.percent = 100000 /\ fed = Len(stream)
               /\ ps.pc # "streaming" /\ ps.responseTasks >= 0
          ELSE r.percent \in 0..99000
  /\ ps.pc = "streaming" => (ps.out.renders100 = 0 /\ ps.out.prevRendered <= 99000)

\* the status line showed the capped 99 and then, after the stream had ended,
\* the completed 100
C4_Witness ==
  /\ ps.pc = "done" /\ ps.out.prevRendered = 99000
  /\ Len(ps.out.rendered) = 1 /\ ps.out.rendered[1].percent = 100000

C10_TrackerNeverFailsParse == ps.error # "tracker"

\* the text length of the chunk that takes the stream from fed to fed'
DeltaLen(from, to) == TextLen(SubSeq(stream, 1, to)) - TextLen(SubSeq(stream, 1, from))

\* C11: a chunk whose usage carries input_tokens / output_tokens is processed
\* without an error, and the prompt and completion token counts after it are
\* the supplied values, the context count their sum; a count that is absent is
\* the estimate (the prompt estimate of the set-up, the completion estimate
\* grown by a quarter of the chunk's length).
C11_ExactTokenCountsOverride ==
  [][\A u \in Usages, e \in Elapsed :
       Chunk(chunkSize, u, e) =>
         /\ ps'.pc = "streaming"
         /\ ps'.promptTokens = IF u[1] # 0 THEN u[1] ELSE ps.promptTokens
         /\ ps'.completionTokens =
              IF u[2] # 0 THEN u[2]
              ELSE ps.completionTokens + CeilDiv(DeltaLen(fed, fed'), 4)
         /\ ps'.contextTokens = ps'.promptTokens + ps'.completionTokens]_vars

-----------------------------------------------------------------------------
(* Properties of task detection *)

\* the task objects that are complete in the text: every brace-free { ... }
\* that JSON.parse accepts and that has an id and a title, as the record of
\* its id, title and priority
ObjectsIn(text) ==
  LET inner(m) == SubSeq(text, m + 1, NextBrace(text, m) - 1)
      objs == {m \in DOMAIN text :
                 /\ \E i \in DOMAIN taskRegex(text) : taskRegex(text)[i] = m
                 /\ JsonValid(inner(m))
                 /\ JsonParse(inner(m)).title # 0}
  IN {JsonParse(inner(m)) : m \in objs}

\* the text delivered so far
Delivered == SubSeq(stream, 1, fed)

\* the task a 'task' event carried, as the record of its id, title and priority
EventTask(info) == [id |-> info.taskId, title |-> info.title, priority |-> info.priority]

\* how many of the tasks of seq carry the id
CountId(seq, id) == Cardinality({i \in DOMAIN seq : seq[i].id = id})

\* C12: a task is reported (handed to tick by updateStreamedJson, carried by a
\* 'task' event of detectTasks) only for an object that is complete in the
\* text delivered so far, with the id, title and priority of that object, so
\* nothing is reported for an object of which only the first part has arrived;
\* and once the chunk that completes an object has been processed, exactly one
\* task with its id has been reported.
C12_SplitObjectDetection ==
  /\ \A i \in DOMAIN hist.tasks : hist.tasks[i] \in ObjectsIn(Delivered)
  /\ hist.lastOp = "updateStreamedJson" =>
       \A o \in ObjectsIn(Delivered) : CountId(hist.tasks, o.id) = 1
  /\ \A i \in DOMAIN ps.out.taskInfos :
       EventTask(ps.out.taskInfos[i]) \in ObjectsIn(Delivered)
  /\ (ps.pc = "streaming" /\ fed > 0) =>
       \A o \in ObjectsIn(Delivered) :
         o.priority \in {"high", "medium", "low"} => Count(ps.out.taskEvents, o.id) = 1

\* the priorities written in the objects of the text that hold the id: a
\* priority member and an id member belong to one object when no brace stands
\* between them
PrioritiesOf(text, id) ==
  LET sameObject(k, j) == \A b \in (Min(k, j) + 1)..(Max(k, j) - 1) : ~IsBrace(text[b])
  IN {PrioName(Val(text[j])) :
        j \in {p \in DOMAIN text :
                 /\ Kind(text[p]) = "prio"
                 /\ \E k \in DOMAIN text : text[k] = Tok("id", id) /\ sameObject(k, p)}}

\* C13: the priority of every task reported, by a 'task' event of detectTasks
\* or by updateStreamedJson to tick, is a priority written in the task's own
\* object in the text delivered so far; no task is reported without one.
C13_ReportedPriorityIsOwn ==
  /\ \A i \in DOMAIN ps.out.taskInfos :
       ps.out.taskInfos[i].priority \in PrioritiesOf(Delivered, ps.out.taskInfos[i].taskId)
  /\ \A i \in DOMAIN hist.tasks :
       hist.tasks[i].priority \in PrioritiesOf(Delivered, hist.tasks[i].id)

\* where the last match of taskRegex in buf ends, 0 when there is no match
EndOfLastMatch(buf) ==
  IF taskRegex(buf) = << >> THEN 0
  ELSE NextBrace(buf, taskRegex(buf)[Len(taskRegex(buf))])

\* C14: after an updateStreamedJson call that reported a task object matched
\* in the buffer, the buffer is the text that followed the last matched object
\* and holds no complete task object.
C14_BufferTruncatedAfterMatch ==
  [][(hist'.lastOp = "updateStreamedJson" /\ calls' = calls + 1) =>
       LET buf == tr.jsonBuffer \o SubSeq(stream, fed + 1, fed')
           reported == {hist'.tasks[i] : i \in (Len(hist.tasks) + 1)..Len(hist'.tasks)}
       IN reported \cap ObjectsIn(buf) # {} =>
            /\ tr'.jsonBuffer = SubSeq(buf, EndOfLastMatch(buf) + 1, Len(buf))
            /\ taskRegex(tr'.jsonBuffer) = << >>]_vars

\* every id of the text is held by one object only
DistinctIds(text) ==
  LET idAt(m) == JsonParse(SubSeq(text, m + 1, NextBrace(text, m) - 1)).id
      ms == {taskRegex(text)[i] : i \in DOMAIN taskRegex(text)}
  IN \A m1, m2 \in ms : idAt(m1) = idAt(m2) => m1 = m2

\* the tasks of seq that were reported for the object o: its id with its title
ReportsOf(seq, o) == {i \in DOMAIN seq : seq[i].id = o.id /\ seq[i].title = o.title}

\* C15: when the task objects of the response have distinct ids, in whatever
\* order, then after every chunk each object that is complete in the text
\* delivered so far has been detected itself, exactly once: one task with its
\* id was handed to tick (was carried by a 'task' event), and with its title.
C15_OutOfOrderIdsEachDetectedOnce ==
  DistinctIds(stream) =>
    /\ hist.lastOp = "updateStreamedJson" =>
         \A o \in ObjectsIn(Delivered) :
           CountId(hist.tasks, o.id) = 1 /\ Cardinality(ReportsOf(hist.tasks, o)) = 1
    /\ (ps.pc = "streaming" /\ fed > 0) =>
         \A o \in ObjectsIn(Delivered) :
           o.priority \in {"high", "medium", "low"} =>
             /\ Count(ps.out.taskEvents, o.id) = 1
             /\ \E i \in DOMAIN ps.out.taskInfos : EventTask(ps.out.taskInfos[i]).id = o.id
                                                   /\ ps.out.taskInfos[i].title = o.title

\* the largest of a non-empty set of numbers
MaxOf(S) == CHOOSE m \in S : \A n \in S : n <= m

\* C16: a step that detects a task whose id is above the expected number of
\* tasks (numTasks of parsePRD, totalTasks of the tracker) sets the expected
\* number to that id, and the percent of the status renders does not go down.
C16_ExpectedCountRevisedToId ==
  [][LET events == {ps'.out.taskInfos[i].taskId :
                      i \in (Len(ps.out.taskInfos) + 1)..Len(ps'.out.taskInfos)}
         ticks == {hist'.tasks[i].id : i \in (Len(hist.tasks) + 1)..Len(hist'.tasks)}
     IN /\ {id \in events : id > ps.numTasks} # {} =>
             /\ ps'.numTasks = MaxOf(events)
             /\ \A i \in 1..(Len(RenderedSamples') - 1) :
                  RenderedSamples'[i] <= RenderedSamples'[i + 1]
        /\ {id \in ticks : id > tr.totalTasks} # {} =>
             tr'.totalTasks = MaxOf(ticks)]_vars

-----------------------------------------------------------------------------
(* Properties of the end of a parsePRD session *)

\* parsePRD has returned or thrown, its SIGINT handler has run or the process
\* has exited
Ended == ps.pc \in {"done", "failed", "exited"} \/ ps.cancelled

\* C17: once parsePRD has returned or thrown, or its SIGINT handler has run,
\* progressInterval is cleared, and no step after that is a run of the
\* interval callback.
C17_TimerCancelledOnEveryExit ==
  /\ [](Ended => ~ps.progressInterval)
  /\ [][Ended => ~(\E due \in BOOLEAN : IntervalTick(due))]_vars

\* the user interrupted a session in which the interval had rendered a status
\* and of which part of the response had arrived
C17_Witness ==
  /\ ps.cancelled /\ ps.pc = "streaming" /\ ~ps.progressInterval
  /\ ps.out.prevRendered >= 0
  /\ fed > 0 /\ fed < Len(stream)

\* C18: after the SIGINT handler has run, neither the completed status (100
\* percent) is rendered nor displayPRDParsingSummary is called.  The handler
\* only runs while the stream is read, when neither has happened yet.
C18_NoCompletionAfterCancel ==
  ps.cancelled => (ps.out.renders100 = 0 /\ ps.out.summaries = 0)

-----------------------------------------------------------------------------
(* Properties of PrdParseTracker *)

\* the session counters of the tracker
Counters(t) == <<t.completedTasks, t.totalTasks, t.tokensIn, t.tokensOut, t.taskCategories>>

\* C6: when finish has returned normally and finish is called again, the second
\* call invokes no summary callback, does not throw, and changes nothing of the
\* tracker (stats, counters, events) but the warning it logs.
C6_IdempotentFinish ==
  [][(hist.lastOp = "finish" /\ ~tr.threw /\ hist'.lastOp = "finish" /\ calls' = calls + 1)
       => tr' = [tr EXCEPT !.warned = TRUE]]_vars

\* finish(ok, stats, cb) twice in a row on a started tracker: cb was invoked once.
C6_Witness ==
  /\ hist.lastOp = "finish" /\ hist.streak = 2 /\ hist.withCallback /\ hist.finished
  /\ tr.summaryCalls = 1 /\ tr.events.finish = 1 /\ ~tr.threw

\* C7: tick, called directly or through updateStreamedJson, on a tracker that is
\* idle or finished (startTime null) does not throw and leaves completedTasks,
\* totalTasks, tokensIn, tokensOut and the priority counts unchanged.
C7_TickOutsideSessionIsNoOp ==
  [][(tr.startTime = 0 /\ hist'.lastOp \in {"tick", "updateStreamedJson"} /\ calls' = calls + 1)
       => (~tr'.threw /\ Counters(tr') = Counters(tr))]_vars

\* C8: start on a running tracker does not throw, keeps the session counters and
\* starts no further spinner or progress-bar timer.
C8_StartWhileRunningIsSilent ==
  [][(tr.startTime # 0 /\ hist'.lastOp = "start" /\ calls' = calls + 1)
       => (/\ ~tr'.threw
           /\ Counters(tr') = Counters(tr)
           /\ tr'.spinTimers = tr.spinTimers
           /\ tr'.barTimers = tr.barTimers)]_vars

\* C9: once finish has completed, no later call makes the tracker running again
\* or changes its session counters.
C9_FinishedIsTerminal ==
  [][hist.finished => (tr'.startTime = 0 /\ Counters(tr') = Counters(tr))]_vars

-----------------------------------------------------------------------------
(* Properties of headless operation and of updateTokens *)

\* What the callers of a tracker observe: counters, priority counts, events
\* emitted and the argument handed to the summary callback.
Outcome(t) ==
  [completedTasks |-> t.completedTasks, totalTasks |-> t.totalTasks,
   tokensIn |-> t.tokensIn, tokensOut |-> t.tokensOut,
   taskCategories |-> t.taskCategories, events |-> t.events,
   summaryCalls |-> t.summaryCalls, summaryArg |-> t.summaryArg]

\* C19: after every call of start, tick, updateTokens, updateStreamedJson or
\* finish, the tracker without a TTY (twin) has the same completedTasks,
\* totalTasks, tokensIn, tokensOut, priority counts, emitted events and
\* summary-callback argument as the tracker that renders to a TTY accepting
\* its writes (tr).
C19_HeadlessIndependence ==
  (tr.isTTY /\ ~twin.isTTY /\ ~tr.sinkBroken) => Outcome(twin) = Outcome(tr)

\* a started TTY tracker that rendered, detected a streamed task, counted
\* tokens and handed the summary to the callback, next to its headless twin
C19_Witness ==
  /\ tr.isTTY /\ ~twin.isTTY /\ ~tr.sinkBroken
  /\ tr.summaryCalls = 1
  /\ twin.summaryCalls = 1
  /\ hist.ticked # << >>
  /\ tr.events.tokensUpdated > 0
  /\ twin.events.taskAdded > 0

\* The fields of a tracker, without the model's record of what the last call
\* logged or raised.
SessionFields(t) == [t EXCEPT !.warned = FALSE, !.threw = FALSE]

\* C20: a tracker is not running before the first start and after a completed
\* finish, and running after start; updateTokens on a running tracker adds
\* deltaIn to tokensIn and deltaOut to tokensOut; on a tracker that is not
\* running it changes no field and emits no event; in both cases
\* completedTasks, totalTasks and the priority counts stay as they were.
C20_UpdateTokensFrame ==
  /\ [](hist.lastOp = "new" => tr.startTime = 0)
  /\ [](hist.lastOp = "start" => tr.startTime # 0)
  /\ []((hist.lastOp = "finish" /\ hist.finished /\ ~tr.threw) => tr.startTime = 0)
  /\ [][\A d \in TokenDeltas :
          UpdateTokens(d) =>
            /\ tr.startTime # 0 =>
                 /\ tr'.tokensIn = tr.tokensIn + d[1]
                 /\ tr'.tokensOut = tr.tokensOut + d[2]
            /\ tr.startTime = 0 =>
                 SessionFields(tr') = SessionFields(tr)
            /\ tr'.completedTasks = tr.completedTasks
            /\ tr'.totalTasks = tr.totalTasks
            /\ tr'.taskCategories = tr.taskCategories]_vars

\* updateTokens(1, 2) was counted while the tracker ran and, called again
\* after finish, left the counters and the events as finish left them
C20_Witness ==
  /\ hist.lastOp = "updateTokens" /\ hist.streak = 1
  /\ tr.startTime = 0
  /\ tr.events.finish = 1
  /\ tr.events.tokensUpdated = 1
  /\ tr.tokensOut = MaxTokenDelta + 1
  /\ tr.completedTasks = 0

-----------------------------------------------------------------------------
(* Properties of start and of the token estimator *)

\* C21: immediately after every start(expectedTaskCount, ...) call
\* completedTasks is 0, the priority counts high/medium/low are 0, tokensIn
\* and tokensOut are the initial values passed and totalTasks is
\* expectedTaskCount, whatever was called on the instance before.
C21_StartResetsCounters ==
  [][\A total \in {0, 1}, tIn \in {0, 1} :
       Start(total, tIn) =>
         /\ tr'.completedTasks = 0
         /\ tr'.taskCategories = [high |-> 0, medium |-> 0, low |-> 0]
         /\ tr'.tokensIn = tIn
         /\ tr'.tokensOut = 0
         /\ tr'.totalTasks = total]_vars

\* C22: for a text of length L > 0 calculateTokens returns a value between
\* ceil(L / 5) and ceil(L / 2); for the empty text it returns 0.
C22_TokenEstimatorBounds ==
  hist.lastOp = "calculateTokens" =>
    IF TextLen(stream) = 0 THEN hist.estimate = 0
    ELSE /\ CeilDiv(TextLen(stream), 5) <= hist.estimate
         /\ hist.estimate <= CeilDiv(TextLen(stream), 2)

\* a text of words whose weighted count lies below one token per 5
\* characters: the lower safety bound is what is returned
C22_Witness ==
  /\ hist.lastOp = "calculateTokens"
  /\ TextLen(stream) >= 10
  /\ hist.estimate = CeilDiv(TextLen(stream), 5)
  /\ calculateTokensUnclamped(stream) < hist.estimate

-----------------------------------------------------------------------------
(* Properties of the percent estimate *)

\* the session was given numTasks = n and detected the ids 1..n in this order
InOrderScenario == ps.out.taskEvents = [i \in 1..ps.numTasks |-> i]

\* C23: when the expected task count is n and the ids 1..n are detected in
\* order, the last percent estimate produced before the successful end of the
\* session is 99, and the percent rendered at the end is 100.
C23_ScenarioEndsAt99Then100 ==
  (ps.pc = "done" /\ InOrderScenario) =>
    /\ EmittedSamples # << >>
    /\ EmittedSamples[Len(EmittedSamples)] = 99000
    /\ ps.out.rendered # << >>
    /\ ps.out.rendered[Len(ps.out.rendered)].percent = 100000

-----------------------------------------------------------------------------
(* Properties of updateGitignore *)

\* a is b with some of its elements left out
RECURSIVE IsSubseq(_, _)
IsSubseq(a, b) ==
  IF a = << >> THEN TRUE
  ELSE IF b = << >> THEN FALSE
  ELSE IF Head(a) = Head(b) THEN IsSubseq(Tail(a), Tail(b))
  ELSE IsSubseq(a, Tail(b))

\* C24: whatever the .gitignore held and whichever value storeTasksInGit has,
\* the lines it held that are not a commented or uncommented tasks.json or
\* tasks/ line are all in the file afterwards, in the same relative order.
C24_GitignoreNonDestructive ==
  [][\A isGitignore \in BOOLEAN, content \in Templates, storeTasksInGit \in BOOLEAN :
       UpdateGitignore(isGitignore, content, storeTasksInGit) =>
         IsSubseq(SelectSeq(stream, LAMBDA l : ~IsTaskLine(l)), stream')]_vars

\* a file of three lines with a task line between two others was rewritten
\* for storeTasksInGit = true
C24_Witness ==
  /\ hist.lastOp = "updateGitignore" /\ hist.withCallback /\ calls = 1
  /\ stream = << "node_modules", "## tasks.json", "# Task files", "# tasks.json", "# tasks/" >>

\* number of '# Task files' lines
Headers(lines) == Cardinality({i \in DOMAIN lines : Trim(lines[i]) = "# Task files"})

\* the line is a comment
Commented(l) == l \in {"# tasks.json", "# tasks/", " #tasks.json "}

\* C25: applied to a file with at most one '# Task files' line,
\* updateGitignore leaves exactly one; the file then holds a tasks.json and
\* a tasks/ line, each below the header and commented if and only if
\* storeTasksInGit is true.
C25_OneHeaderAboveTaskLines ==
  [][\A content \in Templates, storeTasksInGit \in BOOLEAN :
       (UpdateGitignore(TRUE, content, storeTasksInGit) /\ Headers(stream) <= 1) =>
         /\ Headers(stream') = 1
         /\ \A name \in {"tasks.json", "tasks/"} :
              \E i \in DOMAIN stream' : Trimmed(stream'[i]) = name
         /\ \A i \in DOMAIN stream' :
              IsTaskLine(stream'[i]) =>
                /\ \E h \in 1..(i - 1) : Trim(stream'[h]) = "# Task files"
                /\ Commented(stream'[i]) <=> storeTasksInGit]_vars

\* a file with an indented header was updated twice, last with
\* storeTasksInGit = false
C25_Witness ==
  /\ hist.lastOp = "updateGitignore" /\ ~hist.withCallback /\ calls >= 2
  /\ Headers(stream) = 1
  /\ stream[1] = "  # Task files"
  /\ \E i \in DOMAIN stream : stream[i] = "tasks.json"

-----------------------------------------------------------------------------
(* Properties of the rendered status *)

\* the percent of the last status render before the step, 0 when there is none
LastShown(s) ==
  IF s.out.rendered # << >> THEN s.out.rendered[Len(s.out.rendered)].percent
  ELSE IF s.out.prevRendered # -1 THEN s.out.prevRendered
  ELSE 0

\* C26: every render of the interval callback (a call of
\* displayPRDParsingProgress that is not the completed one) shows the maximum
\* of the percent it was asked to show and the percent shown last, so the
\* percent shown never goes backward while the session runs.
C26_RenderedPercentNeverBackward ==
  /\ [](\A i \in 2..Len(RenderedSamples) : RenderedSamples[i - 1] <= RenderedSamples[i])
  /\ [][\A due \in BOOLEAN :
          IntervalTick(due) =>
            /\ Len(ps'.out.rendered) = 1
            /\ ~ps'.out.rendered[1].completed
            /\ ps'.out.rendered[1].percent =
                 Max(Min(99000, ps'.percentComplete), LastShown(ps))]_vars

\* the interval callback set percentComplete back below the percent on
\* display and the render kept the percent on display
C26_Witness ==
  /\ ps.pc = "streaming"
  /\ ps.out.rendered # << >>
  /\ ~ps.out.rendered[1].completed
  /\ ps.out.rendered[1].percent > Min(99000, ps.percentComplete)
  /\ ps.out.prevRendered = ps.out.rendered[1].percent


\* C27: no task id is printed as a task line twice, and when the session has
\* completed every task id for which a 'task' event was emitted has been
\* printed as a task line exactly once.
C27_EachTaskPrintedOnce ==
  /\ \A i \in DOMAIN ps.out.taskLines : Count(ps.out.taskLines, ps.out.taskLines[i]) = 1
  /\ ps.pc = "done" =>
       \A i \in DOMAIN ps.out.taskEvents : Count(ps.out.taskLines, ps.out.taskEvents[i]) = 1


\* the statics as the first render of a session sees them
StaticsAtStart(d) ==
  [lastPercentComplete |-> initStatics(d).lastPercentComplete,
   lastTaskId |-> initStatics(d).lastTaskId,
   detectedTasks |-> initStatics(d).detectedTasks,
   actualTaskCount |-> initStatics(d).actualTaskCount]

\* C28: when a parsePRD session starts after any number of completed
\* sessions of the same process, lastPercentComplete, lastTaskId,
\* detectedTasks and actualTaskCount have their initial values, as in the
\* first session.
C28_NoDisplayStateAcrossSessions ==
  [][NextSession => StaticsAtStart(ps'.display) = StaticsAtStart(NewDisplay)]_vars


\* C29: as long as no task has been detected in the session, every percent
\* estimate emitted lies between 1 and 24.
C29_AnalyzingPercentInBand ==
  (ps.pc = "streaming" /\ ps.seenTaskIds = {}) =>
    \A i \in DOMAIN ps.out.emitted :
      1000 <= ps.out.emitted[i] /\ ps.out.emitted[i] <= 24000


\* the phase the claim assigns to an update: finalizing when the detected
\* tasks have reached the expected count or the metadata marker is in the
\* buffer, else generating_tasks with a task detected, else analyzing
ClaimedPhase(s, content) ==
  IF Cardinality(s.seenTaskIds) >= s.numTasks \/ HasMetadata(content) THEN "finalizing"
  ELSE IF Cardinality(s.seenTaskIds) > 0 THEN "generating_tasks"
  ELSE "analyzing"

\* C30: the progress sample of every streamingTracker update is computed in
\* the finalizing phase when the number of detected tasks has reached the
\* expected count or the metadata marker is in the buffer, else in the
\* generating phase when a task is detected and in the analyzing phase when
\* none is.
C30_PhaseClassification ==
  [][\A u \in Usages, e \in Elapsed :
       (Chunk(chunkSize, u, e) /\ ps'.pc = "streaming") =>
         currentPhase(ps', SubSeq(stream, 1, fed')) = ClaimedPhase(ps', SubSeq(stream, 1, fed'))]_vars


\* the percent calculated in the generating phase with k tasks detected out
\* of n expected and no text of the next task in the buffer
GeneratingBase(k, n) == generatingPercent(k, n, << >>)

\* C31: whenever a streamingTracker update is computed in the generating
\* phase with n > 1 expected and k detected tasks, the calculated percent is a
\* number within 25..99; for 1 <= k <= n it is within 25..90, it is 90 when
\* k = n, and detecting task k + 1 gains at least what detecting task k did.
C31_GeneratingWeighting ==
  [][\A u \in Usages, e \in Elapsed :
       LET content == SubSeq(stream, 1, fed')
           k == Cardinality(ps'.seenTaskIds)
           n == ps'.numTasks
           calculated == generatingPercent(k, n, content)
       IN (/\ Chunk(chunkSize, u, e)
           /\ ps'.pc = "streaming"
           /\ currentPhase(ps', content) = "generating_tasks"
           /\ n > 1) =>
            /\ calculated \in 25..99
            /\ k <= n => calculated \in 25..90
            /\ k = n => calculated = 90
            /\ \A j \in 1..(n - 1) :
                 GeneratingBase(j + 1, n) - GeneratingBase(j, n)
                   >= GeneratingBase(j, n) - GeneratingBase(j - 1, n)]_vars


C33_TasksGeneratedInSync ==
  /\ ps.pc = "streaming" => ps.tasksGenerated = Cardinality(ps.seenTaskIds)
  /\ \A i \in DOMAIN ps.out.taskInfos : ps.out.taskInfos[i].taskCount = i

\* three tasks were reported, out of the order of their ids
C33_Witness ==
  /\ ps.pc = "streaming"
  /\ ps.out.taskEvents = << 1, 3, 2 >>
  /\ ps.tasksGenerated = 3


\* the task objects whose text has started to arrive: the opening braces of
\* the text delivered that an id member follows in the response
StartedObjects ==
  {m \in 1..fed : stream[m] = OPEN /\ m < Len(stream) /\ stream[m + 1][1] = "id"}

\* C34: updateStreamedJson has handed to tick at most as many tasks as task
\* objects have started to arrive, so an object reported through the title
\* fallback is not reported again when it is complete.
C34_ReportedAtMostStarted ==
  Len(hist.tasks) <= Cardinality(StartedObjects)


\* high + medium + low of stats.taskCategories
CategorySum(t) == t.taskCategories.high + t.taskCategories.medium + t.taskCategories.low

\* C35: in every state high + medium + low <= completedTasks, and a tick of a
\* task whose priority is high, medium, low or absent adds one to both sides.
C35_CategoriesWithinCompleted ==
  /\ [](CategorySum(tr) <= tr.completedTasks)
  /\ [][\A task \in TickTasks, d \in TokenDeltas :
          (Tick(task, d) /\ ~TickIgnored(tr) /\ task.priority \in {"high", "medium", "low", "none"})
            => (CategorySum(tr') - CategorySum(tr) = 1
                /\ tr'.completedTasks - tr.completedTasks = 1)]_vars


\* C36: when finish calls the summary callback, the totalTasks it reports is
\* the number of tasks ticked since start (completedTasks), and high + medium +
\* low of the categories it reports is that number too.
C36_SummaryCountsTickedTasks ==
  [][\A success \in BOOLEAN :
       (Finish(success, TRUE) /\ tr'.summaryCalls = tr.summaryCalls + 1) =>
         /\ tr'.summaryArg.totalTasks = tr.completedTasks
         /\ tr'.summaryArg.high + tr'.summaryArg.medium + tr'.summaryArg.low
              = tr.completedTasks]_vars


\* the category the claim names for a priority: the lower-cased priority,
\* medium when absent, none when it is not high, medium or low
ClaimedCategory(priority) ==
  CASE priority \in {"high", "HIGH"} -> "high"
    [] priority \in {"medium", "Medium", "none"} -> "medium"
    [] priority \in {"low", "LOW"} -> "low"
    [] OTHER -> "unknown"

\* C37: a tick on a running tracker adds 1 to completedTasks, adds 1 to the
\* category named by the task's priority and to no other, adds the deltas to
\* tokensIn and tokensOut, and leaves startTime, the seen ids and the buffer
\* as they were.
C37_TickFrame ==
  [][\A task \in TickTasks, d \in TokenDeltas :
       (Tick(task, d) /\ tr.startTime # 0) =>
         /\ tr'.completedTasks = tr.completedTasks + 1
         /\ \A c \in {"high", "medium", "low"} :
              tr'.taskCategories[c] =
                tr.taskCategories[c] + (IF c = ClaimedCategory(task.priority) THEN 1 ELSE 0)
         /\ tr'.tokensIn = tr.tokensIn + d[1]
         /\ tr'.tokensOut = tr.tokensOut + d[2]
         /\ tr'.startTime = tr.startTime
         /\ tr'.seenTaskIds = tr.seenTaskIds
         /\ tr'.jsonBuffer = tr.jsonBuffer]_vars

\* a running tracker has been ticked with a task whose priority is written in
\* capitals, and with token deltas
C37_Witness ==
  /\ hist.lastOp = "tick" /\ tr.startTime # 0
  /\ tr.taskCategories.low = 1 /\ tr.completedTasks = 2 /\ tr.tokensOut > 0


\* C38: once parsePRD has returned, has thrown (before or after the
\* cancellation handler was registered) or its SIGINT handler has run,
\* neither the cancellation handler nor the debug listener of the call is on
\* the process; and a call registers the cancellation handler at most once.
C38_SigintListenersRemoved ==
  /\ Ended => (~ps.sigintHandler /\ ~ps.debugSignalListener)
  /\ ps.registrations <= 1

\* the user interrupted the session and parsePRD then ran to its end
C38_Witness ==
  /\ ps.cancelled /\ ps.pc \in {"done", "failed"}
  /\ ps.registrations = 1 /\ fed > 0

====
